---- MODULE Spec2Model ----
(***************************************************************************)
(* proxmox-pvenom: one invocation of the pvenom command line client.       *)
(*                                                                         *)
(* The state is the state of one run of main(): the parsed command line,   *)
(* the position of the single thread of control (every .await on a network *)
(* request is a suspension point, hence a state), the base address chosen  *)
(* by resolve_base_url, the ProxmoxClient (the session), the data fetched  *)
(* so far, what has been written to standard output by the renderer, and   *)
(* the exit status.  `reqs` is the wire: every request the process has     *)
(* handed to the HTTP transport, with the response it got (or Pending).    *)
(*                                                                         *)
(* Strings are TLA+ strings, built with \o as the code builds them with    *)
(* format!.  Option<T> is a sequence of length at most one.                *)
(***************************************************************************)
EXTENDS Integers, Sequences, FiniteSets, TLC

VARIABLES cli, pc, reqs, base_url, client, nodes, node_info, vms, lxc, idx,
          output, exit_code, stderr

vars == <<cli, pc, reqs, base_url, client, nodes, node_info, vms, lxc, idx,
          output, exit_code, stderr>>

----------------------------------------------------------------------------
(* Bounds of the model *)

\* longest node list the nodes endpoint answers with
MaxNodes == 2
\* most guests, VMs and containers together, the node of a run holds
MaxGuests == 2

----------------------------------------------------------------------------
(* Option, Result and string helpers *)

None == <<>>
Some(x) == <<x>>
IsSome(o) == Len(o) = 1
Unwrap(o) == o[1]

Ok(v) == [ok |-> TRUE, v |-> v]
Err(e) == [ok |-> FALSE, e |-> e]

\* str::starts_with
StartsWith(s, p) == Len(s) >= Len(p) /\ SubSeq(s, 1, Len(p)) = p

----------------------------------------------------------------------------
(* The command line *)

\* the controller is any string: given bare, given with one of the two
\* schemes as resolve_base_url spells them, given with a scheme spelt otherwise
Controllers ==
    {"httpd.lan", "http://httpd.lan", "https://httpd.lan", "HTTPS://httpd.lan"}
NodeArgs == {None, Some("pve1")}
OutputFormat == {"Json", "Csv", "Table"}
Username == "root@pam"
Password == "secret"

Cli == [controller : Controllers, username : {Username}, password : {Password},
        node : NodeArgs, format : OutputFormat, verbose : BOOLEAN]

----------------------------------------------------------------------------
(* vlog.rs: the diagnostics written to the standard error stream.  The     *)
(* debug, info and success lines, which go to the standard output in a     *)
(* verbose run, are not part of the state.                                 *)

LogLevel == [Debug |-> 0, Info |-> 1, Warn |-> 2, Error |-> 3, Silent |-> 4]

\* CURRENT_LEVEL: Silent from its initializer, Debug once main has seen
\* --verbose
CURRENT_LEVEL == IF cli.verbose THEN LogLevel.Debug ELSE LogLevel.Silent

should_log(level) == level >= CURRENT_LEVEL

\* vlog_warn!
vlog_warn(text) ==
    IF should_log(LogLevel.Warn) THEN << [level |-> "WARN", text |-> text] >> ELSE <<>>

\* vlog_error!
vlog_error(text) ==
    IF should_log(LogLevel.Error) THEN << [level |-> "ERROR", text |-> text] >> ELSE <<>>

----------------------------------------------------------------------------
(* The transport: requests and responses *)

NoBody == [t |-> "none"]
NotJson == [t |-> "not_json"]
Json(data) == [t |-> "json", data |-> data]
JNull == [t |-> "null"]
JArray(items) == [t |-> "array", items |-> items]
JObject(fields) == [t |-> "object", fields |-> fields]

Pending == [kind |-> "pending", status |-> 0, body |-> NoBody]
TransportError == [kind |-> "transport_error", status |-> 0, body |-> NoBody]
Http(status, body) == [kind |-> "http", status |-> status, body |-> body]

\* StatusCode::is_success
IsSuccess(status) == 200 <= status /\ status <= 299

TicketPath == "/api2/json/access/ticket"

\* the POST built by try_connection and by ProxmoxClient::new
TicketPost(base, username, password, timeout, by) ==
    [method |-> "POST", url |-> base \o TicketPath,
     form |-> <<<<"username", username>>, <<"password", password>>>>,
     headers |-> <<>>, timeout |-> timeout, by |-> by]

ProbeTimeout == 5
ClientTimeout == 30

\* hand a request to the transport and suspend
Send(req) == Append(reqs, [req |-> req, resp |-> Pending])
\* the awaited request completes
Complete(resp) == [reqs EXCEPT ![Len(reqs)].resp = resp]


----------------------------------------------------------------------------
(* What the cluster may answer *)

AuthData(ticket, csrf, username) ==
    JObject([ticket |-> ticket, CSRFPreventionToken |-> csrf, username |-> username])

Tickets == {"PVE:root@pam:T1"}
ProbeTicket == "PVE:root@pam:T0"
CsrfToken == "CSRF:K1"

ProbeResponses ==
    { TransportError,
      Http(401, NotJson),
      Http(200, Json(AuthData(Some(ProbeTicket), Some(CsrfToken), Some(Username)))) }

AuthResponses ==
    { TransportError,
      Http(401, NotJson),
      Http(200, NotJson),
      Http(200, Json(JNull)),
      Http(200, Json(AuthData(None, Some(CsrfToken), Some(Username)))),
      Http(200, Json(AuthData(Some("PVE:root@pam:T1"), None, Some(Username)))),
      Http(200, Json(AuthData(Some("PVE:root@pam:T1"), Some(CsrfToken), None))) }
    \cup { Http(200, Json(AuthData(Some(t), Some(CsrfToken), Some(Username)))) : t \in Tickets }

----------------------------------------------------------------------------
(* main.rs *)

\* try_connection up to its await: the probe request
ProbeReq(base) == TicketPost(base, cli.username, cli.password, ProbeTimeout, "try_connection")

\* try_connection without the test of the status: any answer counts
try_connection_AnyAnswer(resp) ==
    IF resp.kind = "transport_error" THEN Err("transport")
    ELSE Ok(<<>>)

\* try_connection after its await: Ok(()) on a success status, an error otherwise
try_connection(resp) ==
    IF resp.kind = "transport_error" THEN Err("transport")
    ELSE IF IsSuccess(resp.status) THEN Ok(<<>>)
    ELSE Err("Connection test failed")

\* the scheme test of resolve_base_url
HasScheme(controller) ==
    StartsWith(controller, "http://") \/ StartsWith(controller, "https://")

https_url == "https://" \o cli.controller
http_url == "http://" \o cli.controller

\* ExitFailure leaving with a status of its own
ExitFailure_OwnStatus(diagnostics) ==
    /\ stderr' = stderr \o diagnostics
    /\ pc' = "exited"
    /\ exit_code' = Some(Len(diagnostics) + 1)

\* main's handling of a failed step: std::process::exit(1)
ExitFailure(diagnostics) ==
    /\ stderr' = stderr \o diagnostics
    /\ pc' = "exited"
    /\ exit_code' = Some(1)

\* resolve_base_url from its entry to the first await (or its early return)
ResolveBaseUrl ==
    /\ pc = "start"
    /\ IF HasScheme(cli.controller)
       THEN /\ base_url' = Some(cli.controller)
            /\ pc' = "authenticate"
            /\ reqs' = reqs
       ELSE /\ reqs' = Send(ProbeReq(https_url))
            /\ pc' = "https_probe"
            /\ base_url' = base_url
    /\ UNCHANGED <<cli, client, nodes, node_info, vms, lxc, idx, output, exit_code, stderr>>

\* HttpsProbeDone returning the plaintext address after a successful
\* encrypted probe
HttpsProbeDone_Downgrade ==
    /\ pc = "https_probe"
    /\ \E resp \in ProbeResponses :
         IF try_connection(resp).ok
         THEN /\ reqs' = Complete(resp)
              /\ base_url' = Some(http_url)
              /\ pc' = "authenticate"
              /\ stderr' = stderr
         ELSE /\ reqs' = Append(Complete(resp), [req |-> ProbeReq(http_url), resp |-> Pending])
              /\ base_url' = base_url
              /\ pc' = "http_probe"
              /\ stderr' = stderr \o vlog_warn("HTTPS connection failed, attempting HTTP fallback...")
    /\ UNCHANGED <<cli, client, nodes, node_info, vms, lxc, idx, output, exit_code>>

\* HttpsProbeDone falling back only when the probe got no answer: a
\* non-success status ends the negotiation
HttpsProbeDone_StatusEnds ==
    /\ pc = "https_probe"
    /\ \E resp \in ProbeResponses :
         IF try_connection(resp).ok
         THEN /\ reqs' = Complete(resp)
              /\ base_url' = Some(https_url)
              /\ pc' = "authenticate"
              /\ UNCHANGED <<stderr, exit_code>>
         ELSE IF resp.kind = "transport_error"
         THEN /\ reqs' = Append(Complete(resp), [req |-> ProbeReq(http_url), resp |-> Pending])
              /\ base_url' = base_url
              /\ pc' = "http_probe"
              /\ exit_code' = exit_code
              /\ stderr' = stderr \o vlog_warn("HTTPS connection failed, attempting HTTP fallback...")
         ELSE /\ reqs' = Complete(resp)
              /\ base_url' = base_url
              /\ ExitFailure(vlog_error("Could not connect to " \o cli.controller))
    /\ UNCHANGED <<cli, client, nodes, node_info, vms, lxc, idx, output>>

\* resolve_base_url resumed with the outcome of the HTTPS probe
HttpsProbeDone ==
    /\ pc = "https_probe"
    /\ \E resp \in ProbeResponses :
         IF try_connection(resp).ok
         THEN /\ reqs' = Complete(resp)
              /\ base_url' = Some(https_url)
              /\ pc' = "authenticate"
              /\ stderr' = stderr
         ELSE /\ reqs' = Append(Complete(resp), [req |-> ProbeReq(http_url), resp |-> Pending])
              /\ base_url' = base_url
              /\ pc' = "http_probe"
              /\ stderr' = stderr \o vlog_warn("HTTPS connection failed, attempting HTTP fallback...")
    /\ UNCHANGED <<cli, client, nodes, node_info, vms, lxc, idx, output, exit_code>>

\* HttpProbeDone going on with the plaintext address whatever the probe said
HttpProbeDone_GoesOn ==
    /\ pc = "http_probe"
    /\ \E resp \in ProbeResponses :
         /\ reqs' = Complete(resp)
         /\ base_url' = Some(http_url)
         /\ pc' = "authenticate"
    /\ UNCHANGED <<cli, client, nodes, node_info, vms, lxc, idx, output, exit_code, stderr>>

\* resolve_base_url resumed with the outcome of the HTTP probe; on failure
\* the error reaches main, which exits with status 1
HttpProbeDone ==
    /\ pc = "http_probe"
    /\ \E resp \in ProbeResponses :
         /\ reqs' = Complete(resp)
         /\ IF try_connection(resp).ok
            THEN /\ base_url' = Some(http_url)
                 /\ pc' = "authenticate"
                 /\ exit_code' = exit_code
                 /\ stderr' = stderr \o vlog_warn("HTTP connection successful - consider using HTTPS in production!")
            ELSE /\ base_url' = base_url
                 /\ ExitFailure(
                      vlog_error("Could not connect to " \o cli.controller \o " via HTTPS or HTTP")
                      \o vlog_error("Connection failed: Failed to establish connection to Proxmox cluster"))
    /\ UNCHANGED <<cli, client, nodes, node_info, vms, lxc, idx, output>>

----------------------------------------------------------------------------
(* models.rs: decoding of response bodies (serde) *)

\* AuthTicket with #[serde(default)] on csrf_token: a body without the
\* token decodes
DecodeAuthTicket_TokenOptional(body) ==
    IF /\ body.t = "json"
       /\ body.data.t = "object"
       /\ IsSome(body.data.fields.ticket)
       /\ IsSome(body.data.fields.username)
    THEN Ok([ticket |-> Unwrap(body.data.fields.ticket),
             csrf_token |-> IF IsSome(body.data.fields.CSRFPreventionToken)
                            THEN Unwrap(body.data.fields.CSRFPreventionToken) ELSE "",
             username |-> Unwrap(body.data.fields.username)])
    ELSE Err("Failed to parse authentication response")

\* ProxmoxResponse<AuthTicket>: data must hold ticket, CSRFPreventionToken
\* and username, all three strings without a default
DecodeAuthTicket(body) ==
    IF /\ body.t = "json"
       /\ body.data.t = "object"
       /\ IsSome(body.data.fields.ticket)
       /\ IsSome(body.data.fields.CSRFPreventionToken)
       /\ IsSome(body.data.fields.username)
    THEN Ok([ticket |-> Unwrap(body.data.fields.ticket),
             csrf_token |-> Unwrap(body.data.fields.CSRFPreventionToken),
             username |-> Unwrap(body.data.fields.username)])
    ELSE Err("Failed to parse authentication response")

\* Node: node and status are required, every other field has #[serde(default)]
NodeDecodes(item) == IsSome(item.node) /\ IsSome(item.status)
DecodeNode(item) ==
    [node |-> Unwrap(item.node), status |-> Unwrap(item.status), ip |-> item.ip,
     cpu |-> item.cpu, maxcpu |-> item.maxcpu, mem |-> item.mem,
     maxmem |-> item.maxmem, disk |-> item.disk, maxdisk |-> item.maxdisk,
     uptime |-> item.uptime]

\* VM and LXC: vmid and name are required, status defaults to "", the rest
\* to None
GuestDecodes(item) == IsSome(item.vmid) /\ IsSome(item.name)
DecodeGuest(item) ==
    [vmid |-> Unwrap(item.vmid), name |-> Unwrap(item.name),
     status |-> IF IsSome(item.status) THEN Unwrap(item.status) ELSE "",
     ip |-> item.ip, cpus |-> item.cpus, maxmem |-> item.maxmem,
     maxdisk |-> item.maxdisk, uptime |-> item.uptime]

\* serde_json::from_value(response["data"]) into a Vec<Node>
DecodeNodes(data, what) ==
    IF data.t = "array" /\ \A i \in 1..Len(data.items) : NodeDecodes(data.items[i])
    THEN Ok([i \in 1..Len(data.items) |-> DecodeNode(data.items[i])])
    ELSE Err(what)

\* serde_json::from_value(response["data"]) into a Vec<VM> or a Vec<LXC>
DecodeGuests(data, what) ==
    IF data.t = "array" /\ \A i \in 1..Len(data.items) : GuestDecodes(data.items[i])
    THEN Ok([i \in 1..Len(data.items) |-> DecodeGuest(data.items[i])])
    ELSE Err(what)

----------------------------------------------------------------------------
(* client.rs *)

\* ProxmoxClient::new up to its await: the authentication request
AuthReq(base) == TicketPost(base, cli.username, cli.password, ClientTimeout, "new")

\* ProxmoxClient::new after its await: the session, or the error
new(base, resp) ==
    IF resp.kind = "transport_error" THEN Err("Failed to send authentication request")
    ELSE IF ~IsSuccess(resp.status) THEN Err("Authentication failed: HTTP")
    ELSE LET auth_response == DecodeAuthTicket(resp.body)
         IN  IF ~auth_response.ok THEN auth_response
             ELSE Ok([base_url |-> base,
                      ticket |-> auth_response.v.ticket,
                      csrf_token |-> auth_response.v.csrf_token])

\* the error line ProxmoxClient::new writes itself, on a non-success status
new_diagnostics(resp) ==
    IF resp.kind = "http" /\ ~IsSuccess(resp.status)
    THEN vlog_error("Authentication failed with status: " \o ToString(resp.status))
    ELSE <<>>

\* GetReq presenting the anti-forgery token in the cookie
GetReq_TokenAsCookie(self, path, by) ==
    [method |-> "GET", url |-> self.base_url \o path, form |-> <<>>,
     headers |-> << <<"Cookie", "PVEAuthCookie=" \o self.csrf_token>> >>,
     timeout |-> ClientTimeout, by |-> by]

\* GetReq sending the anti-forgery token along with the ticket
GetReq_SendsToken(self, path, by) ==
    [method |-> "GET", url |-> self.base_url \o path, form |-> <<>>,
     headers |-> << <<"Cookie", "PVEAuthCookie=" \o self.ticket>>,
                    <<"CSRFPreventionToken", self.csrf_token>> >>,
     timeout |-> ClientTimeout, by |-> by]

\* the request built by get and by get_optional
GetReq(self, path, by) ==
    [method |-> "GET", url |-> self.base_url \o path, form |-> <<>>,
     headers |-> << <<"Cookie", "PVEAuthCookie=" \o self.ticket>> >>,
     timeout |-> ClientTimeout, by |-> by]

\* get after its await
get(resp) ==
    IF resp.kind = "transport_error" THEN Err("Failed to send GET request")
    ELSE IF ~IsSuccess(resp.status) THEN Err("Request failed: HTTP")
    ELSE IF resp.body.t # "json" THEN Err("Failed to parse response")
    ELSE Ok(resp.body)

\* the error line get writes itself, on a non-success status
get_diagnostics(resp) ==
    IF resp.kind = "http" /\ ~IsSuccess(resp.status)
    THEN vlog_error("GET failed with status: " \o ToString(resp.status))
    ELSE <<>>

\* get_optional after its await: as get, without the error log
get_optional(resp) ==
    IF resp.kind = "transport_error" THEN Err("transport")
    ELSE IF ~IsSuccess(resp.status) THEN Err("Request failed: HTTP")
    ELSE IF resp.body.t # "json" THEN Err("decode")
    ELSE Ok(resp.body)

NodesPath == "/api2/json/nodes"
StatusPath(node) == "/api2/json/nodes/" \o node \o "/status"
NetworkPath(node) == "/api2/json/nodes/" \o node \o "/network"
QemuPath(node) == "/api2/json/nodes/" \o node \o "/qemu"
LxcPath(node) == "/api2/json/nodes/" \o node \o "/lxc"
AgentPath(node, guest_type, vmid) ==
    "/api2/json/nodes/" \o node \o "/" \o guest_type \o "/" \o ToString(vmid)
        \o "/agent/network-get-interfaces"

\* get_nodes after its await
get_nodes(resp) ==
    LET response == get(resp)
    IN  IF ~response.ok THEN response
        ELSE DecodeNodes(response.v.data, "Failed to parse nodes response")

\* Value::as_u64 / as_f64 of a field of the status object: None when data is
\* not an object or the field is missing
StatusField(data, f) == IF data.t = "object" THEN data.fields[f] ELSE None

\* get_node_status after its await
get_node_status(node, resp) ==
    LET response == get(resp)
    IN  IF ~response.ok THEN response
        ELSE LET data == response.v.data
             IN  Ok([node |-> node, status |-> "online", ip |-> None,
                     cpu |-> StatusField(data, "cpu"),
                     maxcpu |-> StatusField(data, "cpuinfo_cpus"),
                     mem |-> StatusField(data, "memory_used"),
                     maxmem |-> StatusField(data, "memory_total"),
                     disk |-> StatusField(data, "rootfs_used"),
                     maxdisk |-> StatusField(data, "rootfs_total"),
                     uptime |-> StatusField(data, "uptime")])

\* the test get_node_ip applies to an interface
NodeAddressAccepted(interface) ==
    /\ IsSome(interface.address)
    /\ Unwrap(interface.address) # ""
    /\ Unwrap(interface.address) # "127.0.0.1"

\* the loop of get_node_ip over the interfaces
FirstNodeAddress(data) ==
    IF data.t # "array" THEN None
    ELSE LET hits == {i \in 1..Len(data.items) : NodeAddressAccepted(data.items[i])}
         IN  IF hits = {} THEN None
             ELSE Some(Unwrap(data.items[CHOOSE i \in hits : \A j \in hits : i <= j].address))

\* get_node_ip after its await: the error of get is passed on by `?`
get_node_ip(resp) ==
    LET response == get(resp)
    IN  IF ~response.ok THEN response
        ELSE Ok(FirstNodeAddress(response.v.data))

\* the loopback test of get_guest_ip
IsLoopback(ip) == StartsWith(ip, "127.") \/ StartsWith(ip, "::1")

\* the "ip-address" strings of the agent's answer, interface by interface
RECURSIVE AgentAddresses(_)
AgentAddresses(interfaces) ==
    IF interfaces = <<>> THEN <<>>
    ELSE LET interface == Head(interfaces)
             here == IF IsSome(interface.ip_addresses)
                     THEN SelectSeq(Unwrap(interface.ip_addresses), LAMBDA a : IsSome(a.ip_address))
                     ELSE <<>>
         IN  [i \in 1..Len(here) |-> Unwrap(here[i].ip_address)] \o AgentAddresses(Tail(interfaces))

\* the nested loops of get_guest_ip
FirstGuestAddress(data) ==
    IF data.t # "object" THEN None
    ELSE IF data.fields.result.t # "array" THEN None
    ELSE LET found == SelectSeq(AgentAddresses(data.fields.result.items),
                                LAMBDA ip : ~IsLoopback(ip))
         IN  IF found = <<>> THEN None ELSE Some(Head(found))

\* get_guest_ip passing the error of get_optional on
get_guest_ip_Propagates(resp) ==
    LET response == get_optional(resp)
    IN  IF response.ok THEN Ok(FirstGuestAddress(response.v.data))
        ELSE response

\* get_guest_ip after its await: an error of get_optional becomes Ok(None)
get_guest_ip(resp) ==
    LET response == get_optional(resp)
    IN  IF response.ok THEN Ok(FirstGuestAddress(response.v.data))
        ELSE Ok(None)

\* get_vms and get_lxc after their await
get_vms(resp) ==
    LET response == get(resp)
    IN  IF ~response.ok THEN response
        ELSE DecodeGuests(response.v.data, "Failed to parse VMs response")

get_lxc(resp) ==
    LET response == get(resp)
    IN  IF ~response.ok THEN response
        ELSE DecodeGuests(response.v.data, "Failed to parse LXC response")

----------------------------------------------------------------------------
(* commands.rs: presentation helpers *)

KiB == 1024
MiB == KiB * KiB
GiB == KiB * MiB
HalfGiB == GiB \div 2
SecondsPerDay == 86400
SecondsPerHour == 3600

\* a u64 byte quantity gib * 2^30 + rest, rest < 2^30; the two parts keep
\* every number of the model within 32 bits
U64(gib, rest) == [gib |-> gib, rest |-> rest]

\* 2^k
RECURSIVE Pow2(_)
Pow2(k) == IF k = 0 THEN 1 ELSE 2 * Pow2(k - 1)

\* the number of bits of n (0 for 0)
RECURSIVE BitLength(_)
BitLength(n) == IF n = 0 THEN 0 ELSE 1 + BitLength(n \div 2)

\* the bits an f64 holds of a number
MantissaBits == 53

\* b as f64: exact up to 2^53; above, the bits below the 53 leading ones
\* are rounded to nearest, ties to even
AsF64(b) ==
    LET k == BitLength(b.gib) + 30 - MantissaBits
    IN  IF k <= 0 THEN b
        ELSE LET ulp == Pow2(k)
                 low == b.rest % ulp
                 down == b.rest - low
                 up == IF 2 * low > ulp THEN TRUE
                       ELSE IF 2 * low < ulp THEN FALSE
                       ELSE (down \div ulp) % 2 = 1
                 rest == IF up THEN down + ulp ELSE down
             IN  IF rest = GiB THEN U64(b.gib + 1, 0) ELSE U64(b.gib, rest)

\* (b as f64 / 1024.0 / 1024.0 / 1024.0).ceil() as u64: the three divisions
\* by a power of two are exact, and so is ceil
CeilGiB(b) ==
    LET x == AsF64(b)
    IN  x.gib + (IF x.rest = 0 THEN 0 ELSE 1)

\* "{}/{}" of the two ceilings
UsedTotal(used, total) == ToString(CeilGiB(used)) \o "/" \o ToString(CeilGiB(total))

\* UsedTotalCell with a placeholder for each side on its own
UsedTotalCell_EachSide(used, total) ==
    (IF IsSome(used) THEN ToString(CeilGiB(Unwrap(used))) ELSE "N/A")
        \o "/" \o (IF IsSome(total) THEN ToString(CeilGiB(Unwrap(total))) ELSE "N/A")

\* the condensed used/total cell of the list views and of the JSON detail view
UsedTotalCell(used, total) ==
    IF IsSome(used) /\ IsSome(total) THEN UsedTotal(Unwrap(used), Unwrap(total))
    ELSE "N/A"

\* a number of tenths written with one decimal
Tenths(t) == ToString(t \div 10) \o "." \o ToString(t % 10)

\* format!("{:.1}", b as f64 / 1024.0 / 1024.0 / 1024.0): the division is exact, and
\* the formatter rounds the exact value to the nearest tenth, ties to even.
\* 10 * (b mod 2^30) is kept as hi * 2^20 + lo so that no product leaves 32 bits
Fixed1GiB(b) ==
    LET x == AsF64(b)
        r == x.rest
        a == r \div MiB
        c == r % MiB
        hi == a * 10 + (c * 10) \div MiB
        lo == (c * 10) % MiB
        d == hi \div KiB
        rem == (hi % KiB) * MiB + lo
        floorTenths == x.gib * 10 + d
        up == IF rem > HalfGiB THEN 1
              ELSE IF rem = HalfGiB /\ floorTenths % 2 = 1 THEN 1
              ELSE 0
    IN  Tenths(floorTenths + up)

\* the RAM / HDD cell of a guest
GuestGiBCell(bytes) == IF IsSome(bytes) THEN Fixed1GiB(Unwrap(bytes)) ELSE "N/A"

\* Option<u32>::to_string or "N/A"
CountCell(n) == IF IsSome(n) THEN ToString(Unwrap(n)) ELSE "N/A"

\* Option<String> or "N/A"
IpCell(ip) == IF IsSome(ip) THEN Unwrap(ip) ELSE "N/A"

\* format!("{:.1}", c * 100.0): the model holds a CPU fraction as a whole
\* number of thousandths, so the percentage has exactly one decimal
CpuPercentCell(cpu) == IF IsSome(cpu) THEN Tenths(Unwrap(cpu)) ELSE "N/A"

\* format!("{:.1}", u as f64 / 86400.0), to the nearest tenth of a day
UptimeDaysCell(uptime) ==
    IF IsSome(uptime)
    THEN Tenths((Unwrap(uptime) * 10 + SecondsPerDay \div 2) \div SecondsPerDay)
    ELSE "N/A"

\* UptimeDaysHours with the hours rounded to the nearest
UptimeDaysHours_Rounded(uptime) ==
    ToString(uptime \div SecondsPerDay) \o "d "
        \o ToString(((uptime % SecondsPerDay) + 1800) \div SecondsPerHour) \o "h"

\* "{}d {}h" of the node detail table
UptimeDaysHours(uptime) ==
    ToString(uptime \div SecondsPerDay) \o "d "
        \o ToString((uptime % SecondsPerDay) \div SecondsPerHour) \o "h"

\* bytes in ascending order: the position of a character is its rank
Alphabet == " ,-.0123456789:ABCDEFGHIJKLMNOPQRSTUVWXYZ_abcdefghijklmnopqrstuvwxyz"
Rank == [ch \in {SubSeq(Alphabet, i, i) : i \in 1..Len(Alphabet)} |->
            CHOOSE i \in 1..Len(Alphabet) : SubSeq(Alphabet, i, i) = ch]
Ord(ch) == Rank[ch]

\* str::cmp (byte-wise, lexicographic): a < b
RECURSIVE StrLess(_, _)
StrLess(a, b) ==
    IF b = "" THEN FALSE
    ELSE IF a = "" THEN TRUE
    ELSE LET x == Ord(SubSeq(a, 1, 1))
             y == Ord(SubSeq(b, 1, 1))
         IN  IF x # y THEN x < y
             ELSE StrLess(SubSeq(a, 2, Len(a)), SubSeq(b, 2, Len(b)))

\* InsertByName putting the element before the elements of the same name
RECURSIVE InsertByName_BeforeEquals(_, _)
InsertByName_BeforeEquals(sorted, g) ==
    IF sorted = <<>> THEN <<g>>
    ELSE IF ~StrLess(Head(sorted).name, g.name) THEN <<g>> \o sorted
    ELSE <<Head(sorted)>> \o InsertByName_BeforeEquals(Tail(sorted), g)

\* one element put in its place after the elements that are not greater
RECURSIVE InsertByName(_, _)
InsertByName(sorted, g) ==
    IF sorted = <<>> THEN <<g>>
    ELSE IF StrLess(g.name, Head(sorted).name) THEN <<g>> \o sorted
    ELSE <<Head(sorted)>> \o InsertByName(Tail(sorted), g)

\* guests.sort_by(|a, b| a.name().cmp(b.name())): a stable sort
RECURSIVE SortByName(_)
SortByName(guests) ==
    IF guests = <<>> THEN <<>>
    ELSE InsertByName(SortByName(SubSeq(guests, 1, Len(guests) - 1)), guests[Len(guests)])

\* Guest::VM / Guest::LXC around a decoded descriptor
TagGuest(g, guest_type) ==
    [guest_type |-> guest_type, vmid |-> g.vmid, name |-> g.name, status |-> g.status,
     ip |-> g.ip, cpus |-> g.cpus, maxmem |-> g.maxmem, maxdisk |-> g.maxdisk,
     uptime |-> g.uptime]

\* NormalizeGuests leaving out a container whose identifier a VM bears
NormalizeGuests_Dedup(v, l) ==
    SortByName([i \in 1..Len(v) |-> TagGuest(v[i], "VM")]
                 \o SelectSeq([i \in 1..Len(l) |-> TagGuest(l[i], "LXC")],
                              LAMBDA c : \A i \in 1..Len(v) : v[i].vmid # c.vmid))

\* the guest list of show_node_info and list_node_guests
NormalizeGuests(v, l) ==
    SortByName([i \in 1..Len(v) |-> TagGuest(v[i], "VM")]
                 \o [i \in 1..Len(l) |-> TagGuest(l[i], "LXC")])

----------------------------------------------------------------------------
(* commands.rs: the three views in the three formats.  What println! writes *)
(* is a line of `output`: a text line, a table (header and rows of cells),  *)
(* or the value handed to serde_json::to_string_pretty.                     *)

TextLine(text) == [kind |-> "text", text |-> text]
JsonLine(value) == [kind |-> "json", value |-> value]
TableLine(header, rows) == [kind |-> "table", header |-> header, rows |-> rows]

Plain(text) == [text |-> text, fg |-> "Default", bold |-> FALSE]
Colored(text, fg) == [text |-> text, fg |-> fg, bold |-> FALSE]
HeaderCell(text) == [text |-> text, fg |-> "Cyan", bold |-> TRUE]
HeaderCells(titles) == [i \in 1..Len(titles) |-> HeaderCell(titles[i])]

\* the status cell of a node (list_nodes and show_node_info)
NodeStatusCell(status) ==
    IF status = "online" THEN Colored(status, "Green") ELSE Colored(status, "Red")

\* the status cell of a guest in show_node_info
GuestStatusCellInfo(status) ==
    IF status = "running" THEN Colored(status, "Green") ELSE Colored(status, "Red")

\* the status cell of a guest in list_node_guests
GuestStatusCellList(status) ==
    IF status = "running" THEN Colored(status, "Green")
    ELSE IF status = "stopped" THEN Colored(status, "Red")
    ELSE Colored(status, "Yellow")

GuestTypeCell(guest_type) ==
    IF guest_type = "VM" THEN Colored("VM", "Blue") ELSE Colored("LXC", "Magenta")

\* println!("{},{},...") of a CSV row
RECURSIVE JoinComma(_)
JoinComma(cells) ==
    IF Len(cells) = 1 THEN cells[1]
    ELSE cells[1] \o "," \o JoinComma(Tail(cells))


(* list_nodes *)

NodeJsonInfo(node) ==
    [name |-> node.node, cpu |-> CountCell(node.maxcpu),
     memory_gb |-> UsedTotalCell(node.mem, node.maxmem),
     storage_gb |-> UsedTotalCell(node.disk, node.maxdisk),
     ipv4 |-> IpCell(node.ip), status |-> node.status]

ListNodesJson(ns) ==
    << JsonLine([root_controller |-> IF ns = <<>> THEN "unknown" ELSE ns[1].node,
                 proxmox_version |-> "unknown",
                 nodes |-> [i \in 1..Len(ns) |-> NodeJsonInfo(ns[i])]]) >>

NodeCsvRow(node) ==
    TextLine(JoinComma(<<node.node, IpCell(node.ip), node.status,
                         CpuPercentCell(node.cpu), CountCell(node.maxcpu),
                         UsedTotalCell(node.mem, node.maxmem),
                         UsedTotalCell(node.disk, node.maxdisk),
                         UptimeDaysCell(node.uptime)>>))

ListNodesCsv(ns) ==
    <<TextLine("NODE,IP,STATUS,CPU_PERCENT,CPU_CORES,RAM_GB,HDD_GB,UPTIME_DAYS")>>
        \o [i \in 1..Len(ns) |-> NodeCsvRow(ns[i])]

NodeTableRow(node) ==
    << Plain(IF IsSome(node.ip) THEN node.node \o "\n" \o Unwrap(node.ip) ELSE node.node),
       NodeStatusCell(node.status),
       Plain(CpuPercentCell(node.cpu)),
       Plain(CountCell(node.maxcpu)),
       Plain(UsedTotalCell(node.mem, node.maxmem)),
       Plain(UsedTotalCell(node.disk, node.maxdisk)),
       Plain(UptimeDaysCell(node.uptime)) >>

ListNodesTable(ns) ==
    << TableLine(HeaderCells(<<"Node", "Status", "CPU %", "CPU Cores", "RAM (GB)",
                               "HDD (GB)", "Uptime (days)">>),
                 [i \in 1..Len(ns) |-> NodeTableRow(ns[i])]) >>

\* the match on output_format of list_nodes
RenderNodes(format, ns) ==
    CASE format = "Json" -> ListNodesJson(ns)
      [] format = "Csv" -> ListNodesCsv(ns)
      [] format = "Table" -> ListNodesTable(ns)

(* show_node_info and list_node_guests *)

GuestJsonInfo(guest) ==
    [name |-> guest.name, type |-> guest.guest_type, cpu |-> CountCell(guest.cpus),
     memory_gb |-> GuestGiBCell(guest.maxmem), storage_gb |-> GuestGiBCell(guest.maxdisk),
     ipv4 |-> IpCell(guest.ip), status |-> guest.status]

NodeInfoJson(info, guests) ==
    << JsonLine([name |-> info.node, cpu |-> CountCell(info.maxcpu),
                 memory_gb |-> UsedTotalCell(info.mem, info.maxmem),
                 storage_gb |-> UsedTotalCell(info.disk, info.maxdisk),
                 ipv4 |-> IpCell(info.ip), status |-> info.status,
                 is_root_controller |-> "NO",
                 guests |-> [i \in 1..Len(guests) |-> GuestJsonInfo(guests[i])]]) >>

\* GuestCsvRowInfo quoting a name that holds a comma
GuestCsvRowInfo_Quoted(guest) ==
    TextLine(JoinComma(<<IF \E i \in 1..Len(guest.name) : SubSeq(guest.name, i, i) = ","
                         THEN "\"" \o guest.name \o "\"" ELSE guest.name,
                         guest.status, CountCell(guest.cpus),
                         GuestGiBCell(guest.maxmem), GuestGiBCell(guest.maxdisk),
                         IpCell(guest.ip)>>))

GuestCsvRowInfo(guest) ==
    TextLine(JoinComma(<<guest.name, guest.status, CountCell(guest.cpus),
                         GuestGiBCell(guest.maxmem), GuestGiBCell(guest.maxdisk),
                         IpCell(guest.ip)>>))

NodeInfoCsv(info, guests) ==
    <<TextLine("NAME,STATUS,CPU,RAM_GB,HDD_GB,IPv4")>> \o [i \in 1..Len(guests) |-> GuestCsvRowInfo(guests[i])]

\* the Property / Value rows of the node table: a row per present field
NodeInfoRows(info) ==
    << <<Plain("Node"), Plain(info.node)>> >>
    \o (IF IsSome(info.ip) THEN << <<Plain("IP"), Plain(Unwrap(info.ip))>> >> ELSE <<>>)
    \o << <<Plain("Status"), NodeStatusCell(info.status)>> >>
    \o (IF IsSome(info.maxcpu)
        THEN << <<Plain("CPU Cores"), Plain(ToString(Unwrap(info.maxcpu)))>> >> ELSE <<>>)
    \o (IF IsSome(info.mem) /\ IsSome(info.maxmem)
        THEN << <<Plain("RAM"), Plain(UsedTotal(Unwrap(info.mem), Unwrap(info.maxmem)) \o " GB")>> >>
        ELSE <<>>)
    \o (IF IsSome(info.disk) /\ IsSome(info.maxdisk)
        THEN << <<Plain("HDD"), Plain(UsedTotal(Unwrap(info.disk), Unwrap(info.maxdisk)) \o " GB")>> >>
        ELSE <<>>)
    \o (IF IsSome(info.uptime)
        THEN << <<Plain("Uptime"), Plain(UptimeDaysHours(Unwrap(info.uptime)))>> >> ELSE <<>>)

GuestTableRowInfo(guest) ==
    << Plain(guest.name), Plain(IpCell(guest.ip)), GuestTypeCell(guest.guest_type),
       GuestStatusCellInfo(guest.status), Plain(CountCell(guest.cpus)),
       Plain(GuestGiBCell(guest.maxmem)) >>

\* NodeInfoTable writing the guests table whatever the number of guests
NodeInfoTable_AlwaysGrid(info, guests) ==
    << TextLine("\n=== Node Information ===\n"),
       TableLine(HeaderCells(<<"Property", "Value">>), NodeInfoRows(info)),
       TextLine("\n=== Guests (" \o ToString(Len(guests)) \o ") ===\n"),
       TableLine(HeaderCells(<<"Name", "IP", "Type", "Status", "CPUs", "RAM (GB)">>),
                 [i \in 1..Len(guests) |-> GuestTableRowInfo(guests[i])]) >>

NodeInfoTable(info, guests) ==
    << TextLine("\n=== Node Information ===\n"),
       TableLine(HeaderCells(<<"Property", "Value">>), NodeInfoRows(info)) >>
    \o (IF guests # <<>>
        THEN << TextLine("\n=== Guests (" \o ToString(Len(guests)) \o ") ===\n"),
                TableLine(HeaderCells(<<"Name", "IP", "Type", "Status", "CPUs", "RAM (GB)">>),
                          [i \in 1..Len(guests) |-> GuestTableRowInfo(guests[i])]) >>
        ELSE << TextLine("\nNo guests on this node.\n") >>)

\* the match on output_format of show_node_info
RenderNodeInfo(format, info, guests) ==
    CASE format = "Json" -> NodeInfoJson(info, guests)
      [] format = "Csv" -> NodeInfoCsv(info, guests)
      [] format = "Table" -> NodeInfoTable(info, guests)

GuestCsvRowList(node, guest) ==
    TextLine(JoinComma(<<node, ToString(guest.vmid), guest.name, IpCell(guest.ip),
                         guest.guest_type, guest.status, CountCell(guest.cpus),
                         GuestGiBCell(guest.maxmem)>>))

NodeGuestsCsv(node, guests) ==
    <<TextLine("NODE,VMID,NAME,IP,TYPE,STATUS,CPUS,RAM_GB")>>
        \o [i \in 1..Len(guests) |-> GuestCsvRowList(node, guests[i])]

GuestTableRowList(guest) ==
    << Plain(ToString(guest.vmid)), Plain(guest.name), Plain(IpCell(guest.ip)),
       GuestTypeCell(guest.guest_type), GuestStatusCellList(guest.status),
       Plain(CountCell(guest.cpus)), Plain(GuestGiBCell(guest.maxmem)) >>

NodeGuestsTable(node, guests) ==
    << TextLine("Node: " \o node),
       TableLine(HeaderCells(<<"VMID", "Name", "IP", "Type", "Status", "CPUs", "RAM (GB)">>),
                 [i \in 1..Len(guests) |-> GuestTableRowList(guests[i])]) >>

NodeGuestsJson(guests) == << JsonLine([i \in 1..Len(guests) |-> GuestJsonInfo(guests[i])]) >>

\* the match on output_format of list_node_guests
RenderNodeGuests(format, node, guests) ==
    CASE format = "Json" -> NodeGuestsJson(guests)
      [] format = "Csv" -> NodeGuestsCsv(node, guests)
      [] format = "Table" -> NodeGuestsTable(node, guests)

----------------------------------------------------------------------------
(* What the cluster may answer to the resource requests *)

\* the ways a GET fails inside get / get_optional: no response, a
\* non-success status, a body that is not JSON
GetFailures == { TransportError, Http(500, NotJson), Http(200, NotJson) }

\* the i-th element of the nodes listing: odd ones fully populated, even ones
\* with the required fields only
NodeItem(i) ==
    IF i % 2 = 1
    THEN [node |-> Some("pve" \o ToString(i)), status |-> Some("online"), ip |-> None,
          cpu |-> Some(153), maxcpu |-> Some(8), mem |-> Some(U64(1, 126258176)),
          maxmem |-> Some(U64(1, GiB - 1)), disk |-> Some(U64(1, 0)), maxdisk |-> Some(U64(1, 1)),
          uptime |-> Some(1314000)]
    ELSE [node |-> Some("pve" \o ToString(i)), status |-> Some("offline"), ip |-> None,
          cpu |-> None, maxcpu |-> None, mem |-> None, maxmem |-> None,
          disk |-> None, maxdisk |-> None, uptime |-> None]

NodesResponses ==
    GetFailures
    \cup { Http(200, Json(JNull)),
           Http(200, Json(JArray(<<[NodeItem(1) EXCEPT !.status = None]>>))) }
    \cup { Http(200, Json(JArray([i \in 1..k |-> NodeItem(i)]))) : k \in 0..MaxNodes }

StatusResponses ==
    GetFailures
    \cup { Http(200, Json(JNull)),
           Http(200, Json(JObject([cpu |-> Some(21), cpuinfo_cpus |-> Some(16),
                                   memory_used |-> Some(U64(1, 1)), memory_total |-> Some(U64(1, GiB - 1)),
                                   rootfs_used |-> Some(U64(0, 0)), rootfs_total |-> None,
                                   uptime |-> Some(93784)]))) }

Interface(address) == [address |-> address]

NetworkResponses ==
    GetFailures
    \cup { Http(200, Json(JNull)),
           Http(200, Json(JArray(<<Interface(None), Interface(Some("")),
                                   Interface(Some("127.0.0.1")), Interface(Some("10.0.0.5")),
                                   Interface(Some("10.0.0.6"))>>))) }

\* the i-th element of the qemu listing
VMItem(i) ==
    [vmid |-> Some(100 + i), name |-> Some(IF i % 2 = 1 THEN "web" ELSE "db,prod"),
     status |-> IF i % 2 = 1 THEN Some("running") ELSE None, ip |-> None,
     cpus |-> IF i % 2 = 1 THEN Some(4) ELSE None,
     maxmem |-> IF i % 2 = 1 THEN Some(U64(1, HalfGiB)) ELSE None,
     maxdisk |-> IF i % 2 = 1 THEN Some(U64(1, GiB - 1)) ELSE None,
     uptime |-> IF i % 2 = 1 THEN Some(4000) ELSE None]

\* the i-th element of the lxc listing
LXCItem(i) ==
    [vmid |-> Some(99 + 2 * i), name |-> Some(IF i % 2 = 1 THEN "Cache" ELSE "web"),
     status |-> Some(IF i % 2 = 1 THEN "stopped" ELSE "paused"), ip |-> None,
     cpus |-> Some(i), maxmem |-> Some(U64(0, HalfGiB)), maxdisk |-> None, uptime |-> None]

VmsResponses ==
    GetFailures
    \cup { Http(200, Json(JNull)),
           Http(200, Json(JArray(<<[VMItem(1) EXCEPT !.name = None]>>))) }
    \cup { Http(200, Json(JArray([i \in 1..k |-> VMItem(i)]))) : k \in 0..MaxGuests }

\* the answers of the lxc endpoint of a node that holds n VMs
LxcResponses(n) ==
    GetFailures
    \cup { Http(200, Json(JNull)),
           Http(200, Json(JArray(<<[LXCItem(1) EXCEPT !.vmid = None]>>))) }
    \cup { Http(200, Json(JArray([i \in 1..k |-> LXCItem(i)]))) : k \in 0..(MaxGuests - n) }

AgentInterface(addresses) ==
    [ip_addresses |-> Some([i \in 1..Len(addresses) |-> [ip_address |-> Some(addresses[i])]])]

AgentResult(interfaces) == Json(JObject([result |-> JArray(interfaces)]))

AgentResponses ==
    GetFailures
    \cup { Http(200, Json(JNull)),
           Http(200, AgentResult(<<AgentInterface(<<"127.0.0.1", "::1">>),
                                   [ip_addresses |-> None],
                                   AgentInterface(<<"10.0.0.7", "10.0.0.8">>)>>)) }

----------------------------------------------------------------------------
(* main.rs, continued: authentication and dispatch *)

\* Authenticate going to the https address whatever resolve_base_url returned
Authenticate_AlwaysHttps ==
    /\ pc = "authenticate"
    /\ reqs' = Send(AuthReq(https_url))
    /\ pc' = "new"
    /\ UNCHANGED <<cli, base_url, client, nodes, node_info, vms, lxc, idx, output, exit_code, stderr>>

\* main calls ProxmoxClient::new with the resolved base address
Authenticate ==
    /\ pc = "authenticate"
    /\ reqs' = Send(AuthReq(Unwrap(base_url)))
    /\ pc' = "new"
    /\ UNCHANGED <<cli, base_url, client, nodes, node_info, vms, lxc, idx, output, exit_code, stderr>>

\* ProxmoxClient::new resumed with the response; on an error main exits
AuthDone ==
    /\ pc = "new"
    /\ \E resp \in AuthResponses :
         LET c == new(Unwrap(base_url), resp)
         IN  /\ reqs' = Complete(resp)
             /\ IF c.ok
                THEN /\ client' = Some(c.v)
                     /\ pc' = "dispatch"
                     /\ UNCHANGED <<exit_code, stderr>>
                ELSE /\ client' = client
                     /\ ExitFailure(new_diagnostics(resp)
                                     \o vlog_error("Authentication failed: " \o c.e))
    /\ UNCHANGED <<cli, base_url, nodes, node_info, vms, lxc, idx, output>>

self == Unwrap(client)

----------------------------------------------------------------------------
(* commands.rs: list_nodes *)

\* main runs list_nodes when no node is named; list_nodes up to its first await
ListNodes ==
    /\ pc = "dispatch"
    /\ cli.node = None
    /\ reqs' = Send(GetReq(self, NodesPath, "get"))
    /\ pc' = "list_nodes.get_nodes"
    /\ UNCHANGED <<cli, base_url, client, nodes, node_info, vms, lxc, idx, output, exit_code, stderr>>

\* list_nodes resumed with the node listing: the first address lookup, or
\* straight to rendering when there is no node
ListNodesGetNodesDone ==
    /\ pc = "list_nodes.get_nodes"
    /\ \E resp \in NodesResponses :
         LET r == get_nodes(resp)
         IN  IF ~r.ok
             THEN /\ reqs' = Complete(resp)
                  /\ ExitFailure(get_diagnostics(resp)
                                  \o vlog_error("Command execution failed: " \o r.e))
                  /\ UNCHANGED <<nodes, idx>>
             ELSE /\ nodes' = r.v
                  /\ UNCHANGED <<exit_code, stderr>>
                  /\ IF r.v # <<>>
                     THEN /\ reqs' = Append(Complete(resp),
                                [req |-> GetReq(self, NetworkPath(r.v[1].node), "get"),
                                 resp |-> Pending])
                          /\ idx' = 1
                          /\ pc' = "list_nodes.get_node_ip"
                     ELSE /\ reqs' = Complete(resp)
                          /\ idx' = idx
                          /\ pc' = "list_nodes.render"
    /\ UNCHANGED <<cli, base_url, client, node_info, vms, lxc, output>>

\* list_nodes resumed with the address of node idx: `?` ends the command on
\* an error, otherwise the next node, or rendering after the last one
ListNodesGetNodeIpDone ==
    /\ pc = "list_nodes.get_node_ip"
    /\ \E resp \in NetworkResponses :
         LET r == get_node_ip(resp)
         IN  IF ~r.ok
             THEN /\ reqs' = Complete(resp)
                  /\ ExitFailure(get_diagnostics(resp)
                                  \o vlog_error("Command execution failed: " \o r.e))
                  /\ UNCHANGED <<nodes, idx>>
             ELSE /\ nodes' = [nodes EXCEPT ![idx].ip = r.v]
                  /\ UNCHANGED <<exit_code, stderr>>
                  /\ IF idx < Len(nodes)
                     THEN /\ reqs' = Append(Complete(resp),
                                [req |-> GetReq(self, NetworkPath(nodes[idx + 1].node), "get"),
                                 resp |-> Pending])
                          /\ idx' = idx + 1
                          /\ pc' = pc
                     ELSE /\ reqs' = Complete(resp)
                          /\ idx' = idx
                          /\ pc' = "list_nodes.render"
    /\ UNCHANGED <<cli, base_url, client, node_info, vms, lxc, output>>

\* the match on the output format of list_nodes, then Ok(()) and main's return
ListNodesRender ==
    /\ pc = "list_nodes.render"
    /\ output' = output \o RenderNodes(cli.format, nodes)
    /\ pc' = "exited"
    /\ exit_code' = Some(0)
    /\ stderr' = stderr
    /\ UNCHANGED <<cli, reqs, base_url, client, nodes, node_info, vms, lxc, idx>>

----------------------------------------------------------------------------
(* commands.rs: show_node_info and list_node_guests.  The two commands hold *)
(* the same code from get_vms to the sort; `cmd` names the one running.     *)

\* the node both commands are given
node_arg == Unwrap(cli.node)

\* the request of get_guest_ip
GuestIpReq(guest_type, vmid) ==
    GetReq(self, AgentPath(node_arg, guest_type, vmid), "get_optional")

\* main runs show_node_info when a node is named; up to its first await
ShowNodeInfo ==
    /\ pc = "dispatch"
    /\ cli.node # None
    /\ reqs' = Send(GetReq(self, StatusPath(node_arg), "get"))
    /\ pc' = "show_node_info.get_node_status"
    /\ UNCHANGED <<cli, base_url, client, nodes, node_info, vms, lxc, idx, output, exit_code, stderr>>

\* ShowNodeInfoStatusDone going on to the guests before the node address
ShowNodeInfoStatusDone_GuestsFirst ==
    /\ pc = "show_node_info.get_node_status"
    /\ \E resp \in StatusResponses :
         LET r == get_node_status(node_arg, resp)
         IN  IF ~r.ok
             THEN /\ reqs' = Complete(resp)
                  /\ ExitFailure(get_diagnostics(resp)
                                  \o vlog_error("Command execution failed: " \o r.e))
                  /\ node_info' = node_info
             ELSE /\ reqs' = Append(Complete(resp),
                         [req |-> GetReq(self, QemuPath(node_arg), "get"), resp |-> Pending])
                  /\ node_info' = Some(r.v)
                  /\ pc' = "show_node_info.get_vms"
                  /\ UNCHANGED <<exit_code, stderr>>
    /\ UNCHANGED <<cli, base_url, client, nodes, vms, lxc, idx, output>>

\* show_node_info resumed with the node status
ShowNodeInfoStatusDone ==
    /\ pc = "show_node_info.get_node_status"
    /\ \E resp \in StatusResponses :
         LET r == get_node_status(node_arg, resp)
         IN  IF ~r.ok
             THEN /\ reqs' = Complete(resp)
                  /\ ExitFailure(get_diagnostics(resp)
                                  \o vlog_error("Command execution failed: " \o r.e))
                  /\ node_info' = node_info
             ELSE /\ reqs' = Append(Complete(resp),
                         [req |-> GetReq(self, NetworkPath(node_arg), "get"), resp |-> Pending])
                  /\ node_info' = Some(r.v)
                  /\ pc' = "show_node_info.get_node_ip"
                  /\ UNCHANGED <<exit_code, stderr>>
    /\ UNCHANGED <<cli, base_url, client, nodes, vms, lxc, idx, output>>

\* show_node_info resumed with the node address, one of `responses`: `?`
\* ends the command on an error
NodeIpResumed(responses) ==
    /\ pc = "show_node_info.get_node_ip"
    /\ \E resp \in responses :
         LET r == get_node_ip(resp)
         IN  IF ~r.ok
             THEN /\ reqs' = Complete(resp)
                  /\ ExitFailure(get_diagnostics(resp)
                                  \o vlog_error("Command execution failed: " \o r.e))
                  /\ node_info' = node_info
             ELSE /\ reqs' = Append(Complete(resp),
                         [req |-> GetReq(self, QemuPath(node_arg), "get"), resp |-> Pending])
                  /\ node_info' = Some([Unwrap(node_info) EXCEPT !.ip = r.v])
                  /\ pc' = "show_node_info.get_vms"
                  /\ UNCHANGED <<exit_code, stderr>>
    /\ UNCHANGED <<cli, base_url, client, nodes, vms, lxc, idx, output>>

\* ShowNodeInfoNodeIpDone writing the node table as soon as the node is
\* known, before the guests are fetched
ShowNodeInfoNodeIpDone_RendersEarly ==
    /\ pc = "show_node_info.get_node_ip"
    /\ \E resp \in NetworkResponses :
         LET r == get_node_ip(resp)
         IN  IF ~r.ok
             THEN /\ reqs' = Complete(resp)
                  /\ ExitFailure(get_diagnostics(resp)
                                  \o vlog_error("Command execution failed: " \o r.e))
                  /\ UNCHANGED <<node_info, output>>
             ELSE /\ reqs' = Append(Complete(resp),
                         [req |-> GetReq(self, QemuPath(node_arg), "get"), resp |-> Pending])
                  /\ node_info' = Some([Unwrap(node_info) EXCEPT !.ip = r.v])
                  /\ output' = << TextLine("\n=== Node Information ===\n"),
                                  TableLine(HeaderCells(<<"Property", "Value">>),
                                            NodeInfoRows([Unwrap(node_info) EXCEPT !.ip = r.v])) >>
                  /\ pc' = "show_node_info.get_vms"
                  /\ UNCHANGED <<exit_code, stderr>>
    /\ UNCHANGED <<cli, base_url, client, nodes, vms, lxc, idx>>

\* show_node_info resumed with the node address
ShowNodeInfoNodeIpDone == NodeIpResumed(NetworkResponses)

\* list_node_guests up to its first await.  main.rs has no call of this
\* public method; it is run here as a caller holding the Commands value
\* would run it, in the place of show_node_info
ListNodeGuests ==
    /\ pc = "dispatch"
    /\ cli.node # None
    /\ reqs' = Send(GetReq(self, QemuPath(node_arg), "get"))
    /\ pc' = "list_node_guests.get_vms"
    /\ UNCHANGED <<cli, base_url, client, nodes, node_info, vms, lxc, idx, output, exit_code, stderr>>

\* resumed with the VM listing
GetVmsDone(cmd) ==
    /\ pc = cmd \o ".get_vms"
    /\ \E resp \in VmsResponses :
         LET r == get_vms(resp)
         IN  IF ~r.ok
             THEN /\ reqs' = Complete(resp)
                  /\ ExitFailure(get_diagnostics(resp)
                                  \o vlog_error("Command execution failed: " \o r.e))
                  /\ vms' = vms
             ELSE /\ reqs' = Append(Complete(resp),
                         [req |-> GetReq(self, LxcPath(node_arg), "get"), resp |-> Pending])
                  /\ vms' = r.v
                  /\ pc' = cmd \o ".get_lxc"
                  /\ UNCHANGED <<exit_code, stderr>>
    /\ UNCHANGED <<cli, base_url, client, nodes, node_info, lxc, idx, output>>

\* where the two address loops go from position i of the VMs (i = 0: before
\* the first) with VM list v and container list l: the next lookup, if any
AfterVm(cmd, v, l, i) ==
    IF i < Len(v)
    THEN [pc |-> cmd \o ".vm_ip", idx |-> i + 1, req |-> Some(GuestIpReq("qemu", v[i + 1].vmid))]
    ELSE IF l # <<>>
    THEN [pc |-> cmd \o ".lxc_ip", idx |-> 1, req |-> Some(GuestIpReq("lxc", l[1].vmid))]
    ELSE [pc |-> cmd \o ".render", idx |-> i, req |-> None]

\* the same from position i of the containers
AfterLxc(cmd, l, i) ==
    IF i < Len(l)
    THEN [pc |-> cmd \o ".lxc_ip", idx |-> i + 1, req |-> Some(GuestIpReq("lxc", l[i + 1].vmid))]
    ELSE [pc |-> cmd \o ".render", idx |-> i, req |-> None]

\* complete the awaited request and, when there is one, send the next
Proceed(resp, step) ==
    /\ reqs' = IF IsSome(step.req)
               THEN Append(Complete(resp), [req |-> Unwrap(step.req), resp |-> Pending])
               ELSE Complete(resp)
    /\ pc' = step.pc
    /\ idx' = step.idx

\* resumed with the container listing: on to the address loops
GetLxcDone(cmd) ==
    /\ pc = cmd \o ".get_lxc"
    /\ \E resp \in LxcResponses(Len(vms)) :
         LET r == get_lxc(resp)
         IN  IF ~r.ok
             THEN /\ reqs' = Complete(resp)
                  /\ ExitFailure(get_diagnostics(resp)
                                  \o vlog_error("Command execution failed: " \o r.e))
                  /\ UNCHANGED <<lxc, idx>>
             ELSE /\ lxc' = r.v
                  /\ Proceed(resp, AfterVm(cmd, vms, r.v, 0))
                  /\ UNCHANGED <<exit_code, stderr>>
    /\ UNCHANGED <<cli, base_url, client, nodes, node_info, vms, output>>

\* resumed with the address of VM idx, the answer one of `responses`
VmIpResumed(cmd, responses) ==
    /\ pc = cmd \o ".vm_ip"
    /\ \E resp \in responses :
         LET r == get_guest_ip(resp)
         IN  IF ~r.ok
             THEN /\ reqs' = Complete(resp)
                  /\ ExitFailure(vlog_error("Command execution failed: " \o r.e))
                  /\ UNCHANGED <<vms, idx>>
             ELSE /\ vms' = [vms EXCEPT ![idx].ip = r.v]
                  /\ Proceed(resp, AfterVm(cmd, vms, lxc, idx))
                  /\ UNCHANGED <<exit_code, stderr>>
    /\ UNCHANGED <<cli, base_url, client, nodes, node_info, lxc, output>>

VmIpDone(cmd) == VmIpResumed(cmd, AgentResponses)

\* resumed with the address of container idx, the answer one of `responses`
LxcIpResumed(cmd, responses) ==
    /\ pc = cmd \o ".lxc_ip"
    /\ \E resp \in responses :
         LET r == get_guest_ip(resp)
         IN  IF ~r.ok
             THEN /\ reqs' = Complete(resp)
                  /\ ExitFailure(vlog_error("Command execution failed: " \o r.e))
                  /\ UNCHANGED <<lxc, idx>>
             ELSE /\ lxc' = [lxc EXCEPT ![idx].ip = r.v]
                  /\ Proceed(resp, AfterLxc(cmd, lxc, idx))
                  /\ UNCHANGED <<exit_code, stderr>>
    /\ UNCHANGED <<cli, base_url, client, nodes, node_info, vms, output>>

LxcIpDone(cmd) == LxcIpResumed(cmd, AgentResponses)

ShowNodeInfoGetVmsDone == GetVmsDone("show_node_info")
ShowNodeInfoGetLxcDone == GetLxcDone("show_node_info")
ShowNodeInfoVmIpDone == VmIpDone("show_node_info")
ShowNodeInfoLxcIpDone == LxcIpDone("show_node_info")

ListNodeGuestsGetVmsDone == GetVmsDone("list_node_guests")
ListNodeGuestsGetLxcDone == GetLxcDone("list_node_guests")
ListNodeGuestsVmIpDone == VmIpDone("list_node_guests")
ListNodeGuestsLxcIpDone == LxcIpDone("list_node_guests")

\* show_node_info from the sort to its return, and main's return
ShowNodeInfoRender ==
    /\ pc = "show_node_info.render"
    /\ output' = output \o RenderNodeInfo(cli.format, Unwrap(node_info), NormalizeGuests(vms, lxc))
    /\ pc' = "exited"
    /\ exit_code' = Some(0)
    /\ stderr' = stderr
    /\ UNCHANGED <<cli, reqs, base_url, client, nodes, node_info, vms, lxc, idx>>

\* list_node_guests from the sort to its return
ListNodeGuestsRender ==
    /\ pc = "list_node_guests.render"
    /\ output' = output \o RenderNodeGuests(cli.format, node_arg, NormalizeGuests(vms, lxc))
    /\ pc' = "exited"
    /\ exit_code' = Some(0)
    /\ stderr' = stderr
    /\ UNCHANGED <<cli, reqs, base_url, client, nodes, node_info, vms, lxc, idx>>

----------------------------------------------------------------------------
Init ==
    /\ cli \in Cli
    /\ pc = "start"
    /\ reqs = <<>>
    /\ base_url = None
    /\ client = None
    /\ nodes = <<>>
    /\ node_info = None
    /\ vms = <<>>
    /\ lxc = <<>>
    /\ idx = 0
    /\ output = <<>>
    /\ exit_code = None
    /\ stderr = <<>>

Next ==
    \/ ResolveBaseUrl
    \/ HttpsProbeDone
    \/ HttpProbeDone
    \/ Authenticate
    \/ AuthDone
    \/ ListNodes
    \/ ListNodesGetNodesDone
    \/ ListNodesGetNodeIpDone
    \/ ListNodesRender
    \/ ShowNodeInfo
    \/ ShowNodeInfoStatusDone
    \/ ShowNodeInfoNodeIpDone
    \/ ShowNodeInfoGetVmsDone
    \/ ShowNodeInfoGetLxcDone
    \/ ShowNodeInfoVmIpDone
    \/ ShowNodeInfoLxcIpDone
    \/ ShowNodeInfoRender
    \/ ListNodeGuests
    \/ ListNodeGuestsGetVmsDone
    \/ ListNodeGuestsGetLxcDone
    \/ ListNodeGuestsVmIpDone
    \/ ListNodeGuestsLxcIpDone
    \/ ListNodeGuestsRender

Spec == Init /\ [][Next]_vars

----------------------------------------------------------------------------
(* The views on their own.  The sort and the three renderers are pure      *)
(* functions of the fetched descriptors: here they are applied to          *)
(* descriptors drawn from pools that hold the cases the cluster's answers  *)
(* above leave out (equal names, names that differ in case, a comma in a   *)
(* name, every status value, every combination of absent fields).  The     *)
(* wire log plays no part in a view and is left empty.                     *)

\* longest list of nodes, of VMs and of containers handed to a view
MaxListed == 2

SeqsUpTo(S, n) == UNION { [1..k -> S] : k \in 0..n }

\* decoded VM descriptors
VMPool ==
    { [vmid |-> 101, name |-> "web", status |-> "running", ip |-> Some("10.0.0.7"),
       cpus |-> Some(4), maxmem |-> Some(U64(1, HalfGiB)), maxdisk |-> Some(U64(1, GiB - 1)),
       uptime |-> Some(4000)],
      [vmid |-> 102, name |-> "db,prod", status |-> "", ip |-> None,
       cpus |-> None, maxmem |-> None, maxdisk |-> None, uptime |-> None],
      [vmid |-> 103, name |-> "Web", status |-> "stopped", ip |-> None,
       cpus |-> Some(2), maxmem |-> Some(U64(0, 0)), maxdisk |-> Some(U64(1, 0)), uptime |-> Some(0)],
      [vmid |-> 104, name |-> "web", status |-> "paused", ip |-> Some("10.0.0.9"),
       cpus |-> Some(1), maxmem |-> Some(U64(0, HalfGiB \div 10)), maxdisk |-> None,
       uptime |-> None] }

\* decoded container descriptors
LXCPool ==
    { [vmid |-> 101, name |-> "web", status |-> "stopped", ip |-> None,
       cpus |-> Some(1), maxmem |-> Some(U64(0, HalfGiB)), maxdisk |-> None, uptime |-> None],
      [vmid |-> 200, name |-> "cache", status |-> "running", ip |-> Some("10.0.1.2"),
       cpus |-> None, maxmem |-> Some(U64(0, GiB - 1)), maxdisk |-> Some(U64(0, 1)), uptime |-> Some(60)],
      [vmid |-> 201, name |-> "Cache", status |-> "unknown", ip |-> None,
       cpus |-> Some(8), maxmem |-> None, maxdisk |-> Some(U64(1, 1)), uptime |-> None] }

\* decoded elements of the nodes listing, after the address loop
NodePool ==
    { [node |-> "pve1", status |-> "online", ip |-> Some("10.0.0.5"),
       cpu |-> Some(153), maxcpu |-> Some(8), mem |-> Some(U64(0, 1)),
       maxmem |-> Some(U64(1, GiB - 1)), disk |-> Some(U64(1, 0)),
       maxdisk |-> Some(U64(8 * MiB, 1)),
       uptime |-> Some(1314000)],
      [node |-> "pve2", status |-> "offline", ip |-> None,
       cpu |-> None, maxcpu |-> None, mem |-> None, maxmem |-> None,
       disk |-> None, maxdisk |-> None, uptime |-> None],
      [node |-> "pve3", status |-> "unknown", ip |-> None,
       cpu |-> Some(0), maxcpu |-> Some(2), mem |-> Some(U64(0, 0)), maxmem |-> None,
       disk |-> None, maxdisk |-> Some(U64(0, GiB - 1)), uptime |-> Some(0)] }

\* what get_node_status and get_node_ip leave in node_info
NodeInfoPool ==
    { [node |-> "pve1", status |-> "online", ip |-> Some("10.0.0.5"),
       cpu |-> Some(21), maxcpu |-> Some(16), mem |-> Some(U64(1, 1)),
       maxmem |-> Some(U64(1, GiB - 1)), disk |-> Some(U64(0, 0)), maxdisk |-> Some(U64(1, 0)),
       uptime |-> Some(93784)],
      [node |-> "pve1", status |-> "online", ip |-> None,
       cpu |-> None, maxcpu |-> None, mem |-> None, maxmem |-> None,
       disk |-> None, maxdisk |-> None, uptime |-> None],
      [node |-> "pve1", status |-> "online", ip |-> None,
       cpu |-> Some(5), maxcpu |-> None, mem |-> Some(U64(0, GiB - 1)), maxmem |-> None,
       disk |-> None, maxdisk |-> Some(U64(1, 0)), uptime |-> Some(86399)],
      [node |-> "pve1", status |-> "offline", ip |-> None,
       cpu |-> None, maxcpu |-> None, mem |-> None, maxmem |-> None,
       disk |-> None, maxdisk |-> None, uptime |-> Some(3600)],
      [node |-> "pve1", status |-> "unknown", ip |-> None,
       cpu |-> None, maxcpu |-> None, mem |-> None, maxmem |-> None,
       disk |-> None, maxdisk |-> None, uptime |-> Some(2147480000)] }

\* a command about to run its match on the output format
ViewInit ==
    /\ cli \in [controller : {"https://httpd.lan"}, username : {Username},
                password : {Password}, node : NodeArgs, format : OutputFormat,
                verbose : {FALSE}]
    /\ pc \in IF cli.node = None THEN {"list_nodes.render"}
              ELSE {"show_node_info.render", "list_node_guests.render"}
    /\ nodes \in IF pc = "list_nodes.render" THEN SeqsUpTo(NodePool, MaxListed) ELSE {<<>>}
    /\ node_info \in IF pc = "show_node_info.render"
                     THEN {Some(info) : info \in NodeInfoPool} ELSE {None}
    /\ vms \in IF pc = "list_nodes.render" THEN {<<>>} ELSE SeqsUpTo(VMPool, MaxListed)
    /\ lxc \in IF pc = "list_nodes.render" THEN {<<>>} ELSE SeqsUpTo(LXCPool, MaxListed)
    /\ reqs = <<>>
    /\ base_url = Some(cli.controller)
    /\ client = Some([base_url |-> cli.controller, ticket |-> "PVE:root@pam:T1",
                      csrf_token |-> CsrfToken])
    /\ idx = 0
    /\ output = <<>>
    /\ exit_code = None
    /\ stderr = <<>>

ViewNext ==
    \/ ListNodesRender
    \/ ShowNodeInfoRender
    \/ ListNodeGuestsRender

ViewSpec == ViewInit /\ [][ViewNext]_vars

----------------------------------------------------------------------------
(* The address lookups on their own.  get_node_ip and get_guest_ip are pure *)
(* functions of the answer they are resumed with: here show_node_info is    *)
(* taken at the await of a lookup and resumed with answers drawn from pools *)
(* that hold every order of absent, empty, loopback and usable addresses.   *)

\* most interfaces in a network answer, most addresses of an agent interface
MaxAddresses == 2

\* what the "address" of an interface of the node may be
InterfaceAddressPool ==
    {None, Some(""), Some("127.0.0.1"), Some("127.0.1.1"), Some("::1"),
     Some("10.0.0.5"), Some("10.0.0.6")}

\* answers to GET /nodes/{node}/network
NetworkAnswers ==
    GetFailures
    \cup { Http(200, Json(JNull)) }
    \cup { Http(200, Json(JArray([i \in DOMAIN a |-> Interface(a[i])]))) :
              a \in SeqsUpTo(InterfaceAddressPool, MaxAddresses) }

\* what the "ip-address" of an entry of "ip-addresses" may be
GuestAddressPool ==
    {None, Some("127.0.0.53"), Some("::1"), Some("::10"), Some("10.0.0.7"), Some("10.0.0.8")}

\* the interfaces of an agent answer: without "ip-addresses", or with a list
AgentInterfacePool ==
    { [ip_addresses |-> None] }
    \cup { [ip_addresses |-> Some([i \in DOMAIN a |-> [ip_address |-> a[i]]])] :
              a \in SeqsUpTo(GuestAddressPool, MaxAddresses) }

\* answers to GET .../agent/network-get-interfaces: up to two interfaces
AgentAnswers ==
    GetFailures
    \cup { Http(200, Json(JNull)), Http(200, AgentResult(<<>>)) }
    \cup { Http(200, AgentResult(<<a>>)) : a \in AgentInterfacePool }
    \cup { Http(200, AgentResult(<<a, b>>)) : a, b \in AgentInterfacePool }

\* show_node_info suspended at the await of an address lookup
AddressInit ==
    /\ cli \in [controller : {"https://httpd.lan"}, username : {Username},
                password : {Password}, node : {Some("pve1")}, format : {"Table"},
                verbose : {FALSE}]
    /\ pc \in {"show_node_info.get_node_ip", "show_node_info.vm_ip", "show_node_info.lxc_ip"}
    /\ nodes = <<>>
    /\ node_info \in {Some(info) : info \in {i \in NodeInfoPool : i.ip = None /\ i.uptime = None}}
    /\ vms \in IF pc = "show_node_info.vm_ip"
               THEN {<<v>> : v \in {g \in VMPool : g.ip = None /\ g.status = "stopped"}}
               ELSE {<<>>}
    /\ lxc \in IF pc = "show_node_info.lxc_ip"
               THEN {<<c>> : c \in {g \in LXCPool : g.ip = None /\ g.status = "stopped"}}
               ELSE {<<>>}
    /\ idx = IF pc = "show_node_info.get_node_ip" THEN 0 ELSE 1
    /\ base_url = Some(cli.controller)
    /\ client = Some([base_url |-> cli.controller, ticket |-> "PVE:root@pam:T1",
                      csrf_token |-> CsrfToken])
    /\ reqs = << [req |-> CASE pc = "show_node_info.get_node_ip" ->
                                GetReq(self, NetworkPath(node_arg), "get")
                            [] pc = "show_node_info.vm_ip" ->
                                GuestIpReq("qemu", vms[1].vmid)
                            [] pc = "show_node_info.lxc_ip" ->
                                GuestIpReq("lxc", lxc[1].vmid),
                  resp |-> Pending] >>
    /\ output = <<>>
    /\ exit_code = None
    /\ stderr = <<>>

NodeAddressResumed == NodeIpResumed(NetworkAnswers)
VmAddressResumed == VmIpResumed("show_node_info", AgentAnswers)
LxcAddressResumed == LxcIpResumed("show_node_info", AgentAnswers)

AddressNext ==
    \/ NodeAddressResumed
    \/ VmAddressResumed
    \/ LxcAddressResumed

AddressSpec == AddressInit /\ [][AddressNext]_vars

----------------------------------------------------------------------------
(* Vocabulary of the properties: what can be read off the wire *)

EndsWith(s, suffix) ==
    Len(s) >= Len(suffix) /\ SubSeq(s, Len(s) - Len(suffix) + 1, Len(s)) = suffix

Contains(s, part) ==
    \E i \in 1..(Len(s) - Len(part) + 1) : SubSeq(s, i, i + Len(part) - 1) = part

\* an address given without a scheme holds no "://"
NoScheme(address) == ~Contains(address, "://")

Sent == DOMAIN reqs
Completed(i) == reqs[i].resp.kind # "pending"
Succeeded(i) == reqs[i].resp.kind = "http" /\ IsSuccess(reqs[i].resp.status)
Failed(i) == Completed(i) /\ ~Succeeded(i)

Probes == {i \in Sent : reqs[i].req.by = "try_connection"}
EncryptedProbes == {i \in Probes : StartsWith(reqs[i].req.url, "https://")}
PlaintextProbes == {i \in Probes : StartsWith(reqs[i].req.url, "http://")}
AuthExchanges == {i \in Sent : reqs[i].req.by = "new"}
ResourceRequests == {i \in Sent : reqs[i].req.by \in {"get", "get_optional"}}

\* resolve_base_url has returned
Resolved == pc \notin {"start", "https_probe", "http_probe"}

\* C1: for a controller address without a scheme, the outcome of
\* resolve_base_url is decided by the two probe results: encrypted probe
\* succeeded: "https://" + address; encrypted failed and plaintext succeeded:
\* "http://" + address; both failed: an error, and no base address.
C1_ResolveOutcome ==
    (NoScheme(cli.controller) /\ Resolved) =>
        /\ EncryptedProbes # {}
        /\ (\E i \in EncryptedProbes : Succeeded(i))
              => base_url = Some("https://" \o cli.controller)
        /\ (\A i \in EncryptedProbes : Failed(i))
              => /\ PlaintextProbes # {}
                 /\ (\E j \in PlaintextProbes : Succeeded(j))
                       => base_url = Some("http://" \o cli.controller)
                 /\ (\A j \in PlaintextProbes : Failed(j))
                       => base_url = None /\ pc = "exited" /\ exit_code = Some(1)

\* the fallback has happened: encrypted probe failed, plaintext probe
\* succeeded, and the plaintext address was returned
C1_Witness ==
    /\ NoScheme(cli.controller)
    /\ \E i \in EncryptedProbes : Failed(i)
    /\ \E j \in PlaintextProbes : Succeeded(j)
    /\ base_url = Some("http://" \o cli.controller)
    /\ pc = "authenticate"

BothProbesFailed ==
    /\ \E i \in EncryptedProbes : Failed(i)
    /\ \E j \in PlaintextProbes : Failed(j)

\* C2: when both probes have failed, ProxmoxClient::new is never called, no
\* resource request is ever issued, and the run has ended with status 1.
C2_NoAuthAfterFailedProbes ==
    BothProbesFailed =>
        /\ AuthExchanges = {}
        /\ ResourceRequests = {}
        /\ client = None
        /\ pc = "exited"
        /\ exit_code = Some(1)

C2_Witness ==
    /\ BothProbesFailed
    /\ reqs[1].resp = TransportError
    /\ reqs[2].resp.status = 401
    /\ pc = "exited"

\* C3: the plaintext probe is sent only after the encrypted probe has
\* completed with a failure, no two requests are in flight together, and once
\* the encrypted probe has succeeded the base address is the https one and no
\* request at all goes to an http:// address.
C3_SequentialNoDowngrade ==
    /\ Cardinality({i \in Sent : ~Completed(i)}) <= 1
    /\ \A j \in PlaintextProbes : \E i \in EncryptedProbes : i < j /\ Failed(i)
    /\ (\E i \in EncryptedProbes : Succeeded(i)) =>
          /\ base_url = Some("https://" \o cli.controller)
          /\ \A k \in Sent : ~StartsWith(reqs[k].req.url, "http://")
          /\ PlaintextProbes = {}

\* the encrypted probe succeeded and the run went on to authenticate and to
\* fetch resources
C3_Witness ==
    /\ \E i \in EncryptedProbes : Succeeded(i)
    /\ AuthExchanges # {}
    /\ \E k \in ResourceRequests : Completed(k)

\* C4: a controller address that includes a scheme is returned unchanged and
\* no probe is sent at all: the first request of the run is the real
\* authentication exchange, addressed to the address as given.
C4_SchemePassThrough ==
    ~NoScheme(cli.controller) =>
        /\ Probes = {}
        /\ Resolved => base_url = Some(cli.controller)
        /\ reqs # <<>> =>
              /\ reqs[1].req.by = "new"
              /\ reqs[1].req.method = "POST"
              /\ reqs[1].req.url = cli.controller \o "/api2/json/access/ticket"

\* the body of an authentication response holds the named field
AuthBodyHas(resp, field) ==
    /\ resp.body.t = "json"
    /\ resp.body.data.t = "object"
    /\ resp.body.data.fields[field] # None

\* C5: ProxmoxClient::new sends exactly one authentication exchange and never
\* retries; a transport failure, a non-success status, or a body without the
\* ticket or without the anti-forgery token ends the run with a failure and
\* without a session; a session exists only after a success status with a
\* body that decodes, and holds the ticket and token of that body.
C5_OneExchangeNoRetry ==
    /\ Cardinality(AuthExchanges) <= 1
    /\ pc \in {"new", "dispatch"} => Cardinality(AuthExchanges) = 1
    /\ \A i \in AuthExchanges :
         LET resp == reqs[i].resp
         IN  /\ (Completed(i) /\ ( \/ Failed(i)
                                   \/ ~AuthBodyHas(resp, "ticket")
                                   \/ ~AuthBodyHas(resp, "CSRFPreventionToken") ))
                   => /\ client = None
                      /\ i = Len(reqs)
                      /\ pc = "exited"
                      /\ exit_code = Some(1)
             /\ client # None
                   => /\ Succeeded(i)
                      /\ AuthBodyHas(resp, "ticket")
                      /\ AuthBodyHas(resp, "CSRFPreventionToken")
                      /\ AuthBodyHas(resp, "username")
                      /\ Unwrap(client).ticket = Unwrap(resp.body.data.fields.ticket)
                      /\ Unwrap(client).csrf_token = Unwrap(resp.body.data.fields.CSRFPreventionToken)
    /\ client # None => AuthExchanges # {}

\* a success status with a body that lacks the anti-forgery token: no session
C5_Witness ==
    /\ \E i \in AuthExchanges :
         /\ Succeeded(i)
         /\ AuthBodyHas(reqs[i].resp, "ticket")
         /\ ~AuthBodyHas(reqs[i].resp, "CSRFPreventionToken")
    /\ client = None
    /\ pc = "exited"

\* the ticket the authentication exchange returned
IssuedTicket(i) == Unwrap(reqs[i].resp.body.data.fields.ticket)

C6_State ==
    /\ client # None => Unwrap(client).base_url = Unwrap(base_url)
    /\ \A k \in ResourceRequests :
         /\ client # None
         /\ reqs[k].req.method = "GET"
         /\ \E i \in AuthExchanges :
              reqs[k].req.headers = << <<"Cookie", "PVEAuthCookie=" \o IssuedTicket(i)>> >>
         /\ StartsWith(reqs[k].req.url, Unwrap(client).base_url \o "/api2/json/nodes")

\* C6: once the session is constructed no operation changes its base
\* address, ticket or anti-forgery token, and every request sent through it
\* (get and get_optional) carries exactly the ticket the authentication
\* exchange returned and goes to the session's base address.
C6_SessionImmutable ==
    /\ []C6_State
    /\ [][client # None => client' = client]_vars

\* a required and an optional request have both been sent through the session
C6_Witness ==
    /\ \E k \in ResourceRequests : reqs[k].req.by = "get" /\ Completed(k)
    /\ \E k \in ResourceRequests : reqs[k].req.by = "get_optional" /\ Completed(k)
    /\ Probes # {}

\* every anti-forgery token the cluster has handed out in this run
TokensIssued ==
    {Unwrap(reqs[i].resp.body.data.fields.CSRFPreventionToken) :
        i \in {j \in Probes \cup AuthExchanges :
                 Succeeded(j) /\ AuthBodyHas(reqs[j].resp, "CSRFPreventionToken")}}

\* the values a request carries: header names and values, form names and values
Carried(i) ==
    {reqs[i].req.headers[n][m] : n \in DOMAIN reqs[i].req.headers, m \in 1..2}
    \cup {reqs[i].req.form[n][m] : n \in DOMAIN reqs[i].req.form, m \in 1..2}

\* C7: the only POST requests of a run are authentication exchanges to the
\* ticket endpoint, every other request is a GET without a body, and the
\* anti-forgery token is never sent on any request.
C7_ReadOnly ==
    /\ \A i \in Sent :
        /\ reqs[i].req.method \in {"POST", "GET"}
        /\ reqs[i].req.method = "POST" =>
              /\ reqs[i].req.by \in {"try_connection", "new"}
              /\ EndsWith(reqs[i].req.url, "/api2/json/access/ticket")
        /\ reqs[i].req.method = "GET" => reqs[i].req.form = <<>>
        /\ reqs[i].req.by \in {"get", "get_optional"} => reqs[i].req.method = "GET"
        /\ "CSRFPreventionToken" \notin Carried(i)
    /\ \A token \in TokensIssued :
          \A v \in UNION {Carried(i) : i \in Sent} : ~Contains(v, token)

\* the session holds a token, and requests have been sent with it in hand
C7_Witness ==
    /\ client # None
    /\ Unwrap(client).csrf_token \in TokensIssued
    /\ Cardinality(ResourceRequests) >= 3
    /\ pc = "exited"

\* the request was answered with no response, a non-success status, or a
\* body that is not JSON
RequestFailed(i) ==
    /\ Completed(i)
    /\ (Failed(i) \/ reqs[i].resp.body.t # "json")

NetworkRequests == {i \in Sent : EndsWith(reqs[i].req.url, "/network")}
AgentRequests == {i \in Sent : EndsWith(reqs[i].req.url, "/agent/network-get-interfaces")}
RequiredRequests == ResourceRequests \ (NetworkRequests \cup AgentRequests)

\* C8: a failed node network-interfaces request (transport failure,
\* non-success status, undecodable body) never aborts list_nodes or
\* show_node_info: a run whose last request is such a failed request does
\* not end with status 1, and a list_nodes run that ends right after it
\* has rendered its output.
C8_NodeAddressBestEffort ==
    \A i \in NetworkRequests :
        (RequestFailed(i) /\ i = Len(reqs)) =>
            /\ exit_code # Some(1)
            /\ pc = "exited" => output # <<>>

\* the listing of the given kind ("/qemu", "/lxc") as it came over the wire
ListingItems(kind) ==
    LET i == CHOOSE j \in Sent : EndsWith(reqs[j].req.url, kind)
    IN  reqs[i].resp.body.data.items

\* a descriptor holds, address apart, what the listing said
SameButAddress(guest, item) ==
    /\ guest.vmid = Unwrap(item.vmid)
    /\ guest.name = Unwrap(item.name)
    /\ guest.status = (IF item.status = None THEN "" ELSE Unwrap(item.status))
    /\ guest.cpus = item.cpus
    /\ guest.maxmem = item.maxmem
    /\ guest.maxdisk = item.maxdisk
    /\ guest.uptime = item.uptime

\* the guest an address lookup is about
LookupTargets(i) ==
    {g \in {vms[k] : k \in DOMAIN vms} :
        EndsWith(reqs[i].req.url, "/qemu/" \o ToString(g.vmid) \o "/agent/network-get-interfaces")}
    \cup
    {g \in {lxc[k] : k \in DOMAIN lxc} :
        EndsWith(reqs[i].req.url, "/lxc/" \o ToString(g.vmid) \o "/agent/network-get-interfaces")}

\* C9: no outcome of the in-guest-agent request makes get_guest_ip fail: the
\* run never ends with status 1 once the address lookups have begun, a
\* failed lookup leaves the guest without address, every other field of
\* every guest stays as listed, and the run ends with status 0 and output.
C9_GuestAddressNeverFails ==
    AgentRequests # {} =>
        /\ exit_code # Some(1)
        /\ pc = "exited" => (exit_code = Some(0) /\ output # <<>>)
        /\ \A i \in AgentRequests :
              /\ LookupTargets(i) # {}
              /\ RequestFailed(i) => \A g \in LookupTargets(i) : g.ip = None
        /\ LET listed == ListingItems("/qemu")
           IN  /\ Len(vms) = Len(listed)
               /\ \A k \in DOMAIN vms : SameButAddress(vms[k], listed[k])
        /\ LET listed == ListingItems("/lxc")
           IN  /\ Len(lxc) = Len(listed)
               /\ \A k \in DOMAIN lxc : SameButAddress(lxc[k], listed[k])

\* a container whose agent does not answer, in a run that has completed
C9_Witness ==
    /\ pc = "exited"
    /\ exit_code = Some(0)
    /\ \E i \in AgentRequests :
         /\ reqs[i].resp = Http(500, NotJson)
         /\ Contains(reqs[i].req.url, "/lxc/")
    /\ \E k \in DOMAIN lxc : lxc[k].ip = None
    /\ \E k \in DOMAIN vms : vms[k].ip # None

\* the body of a listing does not decode: no array, or an element without a
\* required field
ListingMalformed(i) ==
    /\ Succeeded(i)
    /\ reqs[i].resp.body.t = "json"
    /\ \/ reqs[i].resp.body.data.t # "array"
       \/ \E n \in DOMAIN reqs[i].resp.body.data.items :
             LET item == reqs[i].resp.body.data.items[n]
             IN  IF EndsWith(reqs[i].req.url, "/api2/json/nodes")
                 THEN item.node = None \/ item.status = None
                 ELSE item.vmid = None \/ item.name = None

\* a required call (listNodes, nodeDetail, listGuests of either kind) failed
RequiredCallFailed(i) ==
    \/ RequestFailed(i)
    \/ /\ ~EndsWith(reqs[i].req.url, "/status")
       /\ ListingMalformed(i)

\* C10: when a required call fails, the command fails and nothing has been
\* rendered; whatever is rendered is rendered after every request of the
\* command has completed, all required calls having succeeded, and no
\* request follows it.
C10_NoPartialOutput ==
    /\ (\E i \in RequiredRequests : RequiredCallFailed(i))
          => (output = <<>> /\ pc = "exited" /\ exit_code = Some(1))
    /\ exit_code = Some(1) => output = <<>>
    /\ output # <<>> =>
          /\ pc = "exited"
          /\ exit_code = Some(0)
          /\ \A i \in Sent : Completed(i)
          /\ \A i \in RequiredRequests : ~RequiredCallFailed(i)

\* the container listing fails after the node status, the node address and
\* the VM listing have been fetched
C10_Witness ==
    /\ Len(reqs) >= 5
    /\ Len(reqs) \in RequiredRequests
    /\ EndsWith(reqs[Len(reqs)].req.url, "/lxc")
    /\ RequiredCallFailed(Len(reqs))
    /\ output = <<>>
    /\ exit_code = Some(1)

\* the error-level lines on the standard error stream
ErrorLines == {n \in DOMAIN stderr : stderr[n].level = "ERROR"}

\* the request at position i was sent before, at position j < i
Resent(i) == \E j \in 1..(i - 1) : reqs[j].req = reqs[i].req

\* C11: a run that ends with status 1 (connectivity, authentication, request
\* or decode failure) has written exactly one error diagnostic, whether
\* --verbose was given or not, and the request that failed is the last one
\* of the run and was sent once.
C11_OneDiagnostic ==
    exit_code = Some(1) =>
        /\ Cardinality(ErrorLines) = 1
        /\ reqs # <<>> /\ Completed(Len(reqs)) /\ ~Resent(Len(reqs))

\* the three stages of a run, as the wire shows them to have failed
NegotiationFailed == BothProbesFailed
AuthenticationFailed ==
    \E i \in AuthExchanges :
        Completed(i) /\ ~new(Unwrap(base_url), reqs[i].resp).ok
CommandFailed ==
    \E i \in ResourceRequests :
        /\ reqs[i].req.by = "get"
        /\ RequestFailed(i) \/ (i \in RequiredRequests /\ RequiredCallFailed(i))

\* the selected command has returned Ok(()): it has rendered, and every
\* request it sent has been answered
CommandSucceeded ==
    /\ output # <<>>
    /\ ResourceRequests # {}
    /\ \A i \in Sent : Completed(i)
    /\ ~CommandFailed

\* C12: the run exits with status 0 exactly when negotiation, authentication
\* and the selected command have all succeeded, with status 1 exactly when
\* one of them has failed, and with no other status; there is no status
\* before the run has ended.
C12_ExitStatus ==
    /\ exit_code \in {None, Some(0), Some(1)}
    /\ exit_code # None <=> pc = "exited"
    /\ pc = "exited" =>
          LET failed == NegotiationFailed \/ AuthenticationFailed \/ CommandFailed
          IN  /\ exit_code = Some(0) <=>
                    (base_url # None /\ client # None /\ CommandSucceeded)
              /\ exit_code = Some(1) <=> failed
              /\ exit_code = Some(0) <=> ~failed

\* both outcomes: a run that authenticated and then failed in its command
C12_Witness ==
    /\ exit_code = Some(1)
    /\ client # None
    /\ CommandFailed
    /\ ~NegotiationFailed /\ ~AuthenticationFailed

\* the VMs in fetched order, then the containers in fetched order, each
\* with the tag of its collection
TaggedGuests ==
    [i \in 1..Len(vms) |-> TagGuest(vms[i], "VM")]
        \o [i \in 1..Len(lxc) |-> TagGuest(lxc[i], "LXC")]

\* the guests of a list that bear the name n, in the order of the list
WithName(guests, n) == SelectSeq(guests, LAMBDA g : g.name = n)

\* a guest view has been written
GuestViewWritten == pc = "exited" /\ cli.node # None /\ output # <<>>

\* the guests of a written JSON guest view, in the order written
JsonGuests == IF node_info # None THEN output[1].value.guests ELSE output[1].value

\* C13: the normalized guest list is in ascending order of name under
\* byte-wise comparison, guests of one name stand in their input order (VMs
\* in fetched order, then containers in fetched order), and the views are
\* written in that order.
C13_SortedStable ==
    LET guests == NormalizeGuests(vms, lxc)
    IN  /\ \A i, j \in DOMAIN guests :
              i < j => ~StrLess(guests[j].name, guests[i].name)
        /\ \A i \in DOMAIN guests :
              WithName(guests, guests[i].name) = WithName(TaggedGuests, guests[i].name)
        /\ (GuestViewWritten /\ cli.format = "Json") =>
              /\ Len(JsonGuests) = Len(guests)
              /\ \A i \in DOMAIN guests :
                    /\ JsonGuests[i].name = guests[i].name
                    /\ JsonGuests[i].type = guests[i].guest_type

\* written: two VMs of one name and a container of that name fetched in an
\* order that is not the sorted one, beside a name that differs in case only
C13_Witness ==
    /\ GuestViewWritten /\ cli.format = "Json"
    /\ Len(vms) = 2 /\ Len(lxc) = 2
    /\ vms[1].name = "web" /\ vms[2].name = "web" /\ vms[1].vmid # vms[2].vmid
    /\ lxc[1].name = "web" /\ lxc[2].name = "Cache"
    /\ JsonGuests[1].name = "Cache"

\* how often x stands in a list
Count(list, x) == Cardinality({i \in DOMAIN list : list[i] = x})

\* the guest rows of a written guest view
WrittenGuestRows ==
    CASE cli.format = "Json" -> Len(JsonGuests)
      [] cli.format = "Csv" -> Len(output) - 1
      [] cli.format = "Table" ->
            IF node_info = None THEN Len(output[2].rows)
            ELSE IF Len(output) = 4 THEN Len(output[4].rows)
            ELSE 0

\* C14: normalization neither drops nor duplicates a guest: the normalized
\* list is a permutation of the tagged VMs followed by the tagged
\* containers, so it holds |VMs| + |containers| guests, each with the tag
\* of its collection, a VM and a container of one identifier or one name
\* both among them; and a written view has a row for each.
C14_NoDropNoDuplicate ==
    LET guests == NormalizeGuests(vms, lxc)
    IN  /\ Len(guests) = Len(vms) + Len(lxc)
        /\ \A i \in DOMAIN TaggedGuests :
              Count(guests, TaggedGuests[i]) = Count(TaggedGuests, TaggedGuests[i])
        /\ Cardinality({i \in DOMAIN guests : guests[i].guest_type = "VM"}) = Len(vms)
        /\ Cardinality({i \in DOMAIN guests : guests[i].guest_type = "LXC"}) = Len(lxc)
        /\ \A i \in DOMAIN vms, j \in DOMAIN lxc :
              (vms[i].vmid = lxc[j].vmid \/ vms[i].name = lxc[j].name) =>
                  /\ \E k \in DOMAIN guests : guests[k] = TagGuest(vms[i], "VM")
                  /\ \E k \in DOMAIN guests : guests[k] = TagGuest(lxc[j], "LXC")
        /\ GuestViewWritten => WrittenGuestRows = Len(vms) + Len(lxc)

\* written: a VM and a container that share identifier and name
C14_Witness ==
    /\ GuestViewWritten /\ cli.format = "Json"
    /\ \E i \in DOMAIN vms, j \in DOMAIN lxc :
          vms[i].vmid = lxc[j].vmid /\ vms[i].name = lxc[j].name
    /\ \E i, j \in DOMAIN JsonGuests :
          /\ JsonGuests[i].name = JsonGuests[j].name
          /\ JsonGuests[i].type = "VM" /\ JsonGuests[j].type = "LXC"

\* the position of the first separator of a line, 0 when it has none
FirstOf(line, sep) ==
    IF \E i \in 1..Len(line) : SubSeq(line, i, i) = sep
    THEN CHOOSE i \in 1..Len(line) :
            /\ SubSeq(line, i, i) = sep
            /\ \A j \in 1..(i - 1) : SubSeq(line, j, j) # sep
    ELSE 0

\* the fields of a line between its separators
RECURSIVE Split(_, _)
Split(line, sep) ==
    LET i == FirstOf(line, sep)
    IN  IF i = 0 THEN <<line>>
        ELSE <<SubSeq(line, 1, i - 1)>> \o Split(SubSeq(line, i + 1, Len(line)), sep)

\* the comma-separated fields of a line, as a reader of the CSV sees them
SplitComma(line) == Split(line, ",")

\* the k-th field from the end of a line (k = 0: the last)
FromEnd(fields, k) == fields[Len(fields) - k]

\* a view has been written
ViewWritten == pc = "exited" /\ output # <<>> /\ exit_code = Some(0)

\* the place a view has for an optional field: whether the field is absent,
\* and the text that stands there
Place(absent, text) == [absent |-> absent, text |-> text]

\* the value cell of the row of the node detail table with the given label
RowValue(rows, label) ==
    IF \E r \in DOMAIN rows : rows[r][1].text = label
    THEN rows[CHOOSE r \in DOMAIN rows : rows[r][1].text = label][2].text
    ELSE "<no row>"

\* the places of the node list view
NodeListPlaces ==
    UNION { LET n == nodes[k]
            IN  CASE cli.format = "Json" ->
                       LET item == output[1].value.nodes[k]
                       IN  { Place(n.ip = None, item.ipv4),
                             Place(n.maxcpu = None, item.cpu),
                             Place(n.mem = None \/ n.maxmem = None, item.memory_gb),
                             Place(n.disk = None \/ n.maxdisk = None, item.storage_gb) }
                  [] cli.format = "Csv" ->
                       LET f == SplitComma(output[k + 1].text)
                       IN  { Place(n.ip = None, f[2]),
                             Place(n.cpu = None, f[4]),
                             Place(n.maxcpu = None, f[5]),
                             Place(n.mem = None \/ n.maxmem = None, f[6]),
                             Place(n.disk = None \/ n.maxdisk = None, f[7]),
                             Place(n.uptime = None, f[8]) }
                  [] cli.format = "Table" ->
                       LET row == output[1].rows[k]
                       IN  { Place(n.ip = None,
                                   SubSeq(row[1].text, Len(n.node) + 1, Len(row[1].text))),
                             Place(n.cpu = None, row[3].text),
                             Place(n.maxcpu = None, row[4].text),
                             Place(n.mem = None \/ n.maxmem = None, row[5].text),
                             Place(n.disk = None \/ n.maxdisk = None, row[6].text),
                             Place(n.uptime = None, row[7].text) }
          : k \in DOMAIN nodes }

\* the places of the node part of the node detail view (the CSV has none)
NodeDetailPlaces ==
    LET info == Unwrap(node_info)
    IN  CASE cli.format = "Json" ->
               LET v == output[1].value
               IN  { Place(info.ip = None, v.ipv4),
                     Place(info.maxcpu = None, v.cpu),
                     Place(info.mem = None \/ info.maxmem = None, v.memory_gb),
                     Place(info.disk = None \/ info.maxdisk = None, v.storage_gb) }
          [] cli.format = "Csv" -> {}
          [] cli.format = "Table" ->
               LET rows == output[2].rows
               IN  { Place(info.ip = None, RowValue(rows, "IP")),
                     Place(info.maxcpu = None, RowValue(rows, "CPU Cores")),
                     Place(info.mem = None \/ info.maxmem = None, RowValue(rows, "RAM")),
                     Place(info.disk = None \/ info.maxdisk = None, RowValue(rows, "HDD")),
                     Place(info.uptime = None, RowValue(rows, "Uptime")) }

\* the places of the guest rows of the node detail view and of the guest
\* list view; the CSV fields are counted from the end of the row, a name
\* being free to hold commas
GuestPlaces ==
    LET guests == NormalizeGuests(vms, lxc)
        detail == node_info # None
    IN  UNION { LET g == guests[k]
                IN  CASE cli.format = "Json" ->
                           LET item == JsonGuests[k]
                           IN  { Place(g.cpus = None, item.cpu),
                                 Place(g.maxmem = None, item.memory_gb),
                                 Place(g.maxdisk = None, item.storage_gb),
                                 Place(g.ip = None, item.ipv4) }
                      [] cli.format = "Csv" ->
                           LET f == SplitComma(output[k + 1].text)
                           IN  IF detail
                               THEN { Place(g.cpus = None, FromEnd(f, 3)),
                                      Place(g.maxmem = None, FromEnd(f, 2)),
                                      Place(g.maxdisk = None, FromEnd(f, 1)),
                                      Place(g.ip = None, FromEnd(f, 0)) }
                               ELSE { Place(g.ip = None, FromEnd(f, 4)),
                                      Place(g.cpus = None, FromEnd(f, 1)),
                                      Place(g.maxmem = None, FromEnd(f, 0)) }
                      [] cli.format = "Table" ->
                           IF detail
                           THEN LET row == output[4].rows[k]
                                IN  { Place(g.ip = None, row[2].text),
                                      Place(g.cpus = None, row[5].text),
                                      Place(g.maxmem = None, row[6].text) }
                           ELSE LET row == output[2].rows[k]
                                IN  { Place(g.ip = None, row[3].text),
                                      Place(g.cpus = None, row[6].text),
                                      Place(g.maxmem = None, row[7].text) }
              : k \in DOMAIN guests }

\* every place of the view that has been written
Places ==
    IF cli.node = None THEN NodeListPlaces
    ELSE IF node_info # None THEN NodeDetailPlaces \cup GuestPlaces
    ELSE GuestPlaces

\* C15: in every view and every format, the place of an optional field
\* that is absent holds the literal "N/A": it is not empty, not a zero,
\* not null, and its row or column is not left out.
C15_AbsentIsNA ==
    ViewWritten => \A p \in Places : p.absent => p.text = "N/A"

\* the same with the places of the two tables that leave an absent field
\* out: the node address of the node list, the rows of the node detail
C15_AbsentIsNA_Elsewhere ==
    (ViewWritten /\ cli.format # "Table")
        => \A p \in Places : p.absent => p.text = "N/A"

\* ceil(b / 2^30) of a byte quantity, in whole numbers
TrueCeilGiB(b) == b.gib + (IF b.rest = 0 THEN 0 ELSE 1)

\* a condensed used/total cell: the two quantities, the text written, and
\* the unit that follows the text in the cell
UsedTotalPlace(used, total, text, unit) ==
    IF IsSome(used) /\ IsSome(total)
    THEN {[used |-> Unwrap(used), total |-> Unwrap(total), text |-> text, unit |-> unit]}
    ELSE {}

\* the used/total cells of the view that has been written: RAM and HDD of
\* each node of the node list, RAM and HDD of the node of the node detail
UsedTotalPlaces ==
    IF cli.node = None
    THEN UNION { LET n == nodes[k]
                     cells ==
                         CASE cli.format = "Json" ->
                                <<output[1].value.nodes[k].memory_gb,
                                  output[1].value.nodes[k].storage_gb>>
                           [] cli.format = "Csv" ->
                                <<SplitComma(output[k + 1].text)[6],
                                  SplitComma(output[k + 1].text)[7]>>
                           [] cli.format = "Table" ->
                                <<output[1].rows[k][5].text, output[1].rows[k][6].text>>
                 IN  UsedTotalPlace(n.mem, n.maxmem, cells[1], "")
                        \cup UsedTotalPlace(n.disk, n.maxdisk, cells[2], "")
               : k \in DOMAIN nodes }
    ELSE IF node_info = None \/ cli.format = "Csv" THEN {}
    ELSE LET info == Unwrap(node_info)
         IN  IF cli.format = "Json"
             THEN UsedTotalPlace(info.mem, info.maxmem, output[1].value.memory_gb, "")
                    \cup UsedTotalPlace(info.disk, info.maxdisk, output[1].value.storage_gb, "")
             ELSE UsedTotalPlace(info.mem, info.maxmem, RowValue(output[2].rows, "RAM"), " GB")
                    \cup UsedTotalPlace(info.disk, info.maxdisk, RowValue(output[2].rows, "HDD"), " GB")

\* C16: each side of a written used/total cell is ceil(b / 2^30) of its own
\* byte quantity b, whatever the other side is, so that the number written
\* times 2^30 is never below b, and 0 bytes are written as 0.
C16_CeilingEachSide ==
    ViewWritten =>
        \A c \in UsedTotalPlaces :
            c.text = ToString(TrueCeilGiB(c.used)) \o "/"
                        \o ToString(TrueCeilGiB(c.total)) \o c.unit

\* the same for the quantities an f64 holds exactly, those below 2^53
C16_CeilingEachSide_Exact ==
    ViewWritten =>
        \A c \in UsedTotalPlaces :
            (AsF64(c.used) = c.used /\ AsF64(c.total) = c.total) =>
                c.text = ToString(TrueCeilGiB(c.used)) \o "/"
                            \o ToString(TrueCeilGiB(c.total)) \o c.unit

\* the view of the fetched data in a format
ViewIn(format) ==
    IF cli.node = None THEN RenderNodes(format, nodes)
    ELSE IF node_info # None
         THEN RenderNodeInfo(format, Unwrap(node_info), NormalizeGuests(vms, lxc))
         ELSE RenderNodeGuests(format, node_arg, NormalizeGuests(vms, lxc))

\* the fact a key, a column title or a row label stands for, of a node or
\* of a guest
FactOf(scope, label) ==
    CASE label \in {"name", "NAME", "Name"} -> "name"
      [] label \in {"NODE", "Node"} -> IF scope = "node" THEN "name" ELSE "node"
      [] label \in {"ipv4", "IPv4", "IP"} -> "address"
      [] label \in {"status", "STATUS", "Status"} -> "status"
      [] label \in {"CPU_PERCENT", "CPU %"} -> "cpu load"
      [] label \in {"cpu", "CPU", "CPUS", "CPUs", "CPU_CORES", "CPU Cores"} -> "cpu count"
      [] label \in {"memory_gb", "RAM_GB", "RAM (GB)", "RAM"} -> "memory"
      [] label \in {"storage_gb", "HDD_GB", "HDD (GB)", "HDD"} -> "storage"
      [] label \in {"UPTIME_DAYS", "Uptime (days)", "Uptime"} -> "uptime"
      [] label = "VMID" -> "identifier"
      [] label \in {"type", "TYPE", "Type"} -> "type"
      [] label \in {"root_controller", "is_root_controller"} -> "root controller"
      [] label = "proxmox_version" -> "version"
      [] OTHER -> label

\* what the claim sets aside as metadata
Metadata == {"type", "root controller", "version"}

\* the facts under the titles of a sequence of labels
Titled(scope, labels) == {<<scope, FactOf(scope, labels[i])>> : i \in DOMAIN labels}

\* the facts under the keys of a JSON object
Keyed(scope, object) == {<<scope, FactOf(scope, key)>> : key \in DOMAIN object}

\* the titles of the header of a table
Titles(table) == [i \in DOMAIN table.header |-> table.header[i].text]

\* the facts a view of the fetched data represents in a format, by the
\* object they are about: the keys of the JSON objects, the columns of the
\* CSV, the columns and the labelled rows of the tables.  The node cell of
\* the node list table stands for name and address, the heading of the
\* guest list table for the node.  A collection that is empty has no facts.
Facts(format) ==
    LET view == ViewIn(format)
        guests == NormalizeGuests(vms, lxc)
        all ==
            IF cli.node = None
            THEN IF nodes = <<>> THEN {}
                 ELSE CASE format = "Json" -> Keyed("node", view[1].value.nodes[1])
                        [] format = "Csv" -> Titled("node", SplitComma(view[1].text))
                        [] format = "Table" ->
                             Titled("node", Titles(view[1])) \cup {<<"node", "address">>}
            ELSE IF node_info # None
            THEN CASE format = "Json" ->
                        {f \in Keyed("node", view[1].value) : f[2] # "guests"}
                          \cup (IF guests = <<>> THEN {}
                                ELSE Keyed("guest", view[1].value.guests[1]))
                   [] format = "Csv" ->
                        IF guests = <<>> THEN {}
                        ELSE Titled("guest", SplitComma(view[1].text))
                   [] format = "Table" ->
                        Titled("node", [i \in DOMAIN view[2].rows |-> view[2].rows[i][1].text])
                          \cup (IF guests = <<>> THEN {}
                                ELSE Titled("guest", Titles(view[4])))
            ELSE IF guests = <<>> THEN {}
                 ELSE CASE format = "Json" -> Keyed("guest", view[1].value[1])
                        [] format = "Csv" -> Titled("guest", SplitComma(view[1].text))
                        [] format = "Table" ->
                             Titled("guest", Titles(view[2])) \cup {<<"guest", "node">>}
    IN  {f \in all : f[2] \notin Metadata}

\* C17: for the same fetched data and the same view, Table, CSV and JSON
\* represent the same set of facts, the metadata that only the JSON carries
\* (type discriminator, root controller, version) set aside.
C17_SameFacts ==
    ViewWritten =>
        /\ output = ViewIn(cli.format)
        /\ Facts("Json") = Facts("Csv")
        /\ Facts("Csv") = Facts("Table")

\* what does hold: the written view is the view of the fetched data in the
\* format asked for, and in every format each listed object has its name
\* and its status
C17_NameAndStatus ==
    ViewWritten =>
        /\ output = ViewIn(cli.format)
        /\ \A format \in OutputFormat :
              \A f \in Facts("Json") \cup Facts("Csv") \cup Facts("Table") :
                  (f[1] = "guest" \/ cli.node = None) =>
                      /\ <<f[1], "name">> \in Facts(format)
                      /\ <<f[1], "status">> \in Facts(format)

\* the column of the guest name in the CSV of the two guest views
NameColumn == IF node_info # None THEN 1 ELSE 3

\* C18: in CSV a guest name is written as it is, neither escaped nor
\* quoted: a reader splitting the row at the commas finds the pieces of the
\* name in place of the name, so the row of a name that holds commas has
\* more fields than the header, and every other row has as many as the
\* header.
C18_CommaUnescaped ==
    (GuestViewWritten /\ cli.format = "Csv") =>
        LET guests == NormalizeGuests(vms, lxc)
            header == SplitComma(output[1].text)
        IN  \A k \in DOMAIN guests :
                LET fields == SplitComma(output[k + 1].text)
                    pieces == SplitComma(guests[k].name)
                IN  /\ Len(fields) = Len(header) + Len(pieces) - 1
                    /\ Len(pieces) > 1 => Len(fields) > Len(header)
                    /\ \A j \in DOMAIN pieces : fields[NameColumn + j - 1] = pieces[j]
                    /\ ~Contains(output[k + 1].text, "\"")

\* written: a CSV with a guest whose name holds a comma, its row longer
\* than the header, and a guest whose name holds none, its row as long
C18_Witness ==
    /\ GuestViewWritten /\ cli.format = "Csv"
    /\ \E k, m \in DOMAIN NormalizeGuests(vms, lxc) :
          /\ Contains(NormalizeGuests(vms, lxc)[k].name, ",")
          /\ Len(SplitComma(output[k + 1].text)) > Len(SplitComma(output[1].text))
          /\ ~Contains(NormalizeGuests(vms, lxc)[m].name, ",")
          /\ Len(SplitComma(output[m + 1].text)) = Len(SplitComma(output[1].text))

\* the stage a request belongs to: 0 a probe of the negotiation, 1 the
\* authentication, 2 a request of the command
Stage(i) ==
    IF reqs[i].req.by = "try_connection" THEN 0
    ELSE IF reqs[i].req.by = "new" THEN 1
    ELSE 2

\* the requests of the command, in the order sent
CommandRequests == SelectSeq(reqs, LAMBDA r : r.req.by \notin {"try_connection", "new"})

\* the command running is show_node_info: its first request asks for the
\* status of the node
ShowNodeInfoRan ==
    /\ cli.node # None
    /\ CommandRequests # <<>>
    /\ EndsWith(CommandRequests[1].req.url, StatusPath(node_arg))

\* the paths show_node_info asks for, in order, given the two listings
ShowNodeInfoPaths ==
    <<StatusPath(node_arg), NetworkPath(node_arg), QemuPath(node_arg), LxcPath(node_arg)>>
        \o [i \in DOMAIN vms |-> AgentPath(node_arg, "qemu", vms[i].vmid)]
        \o [i \in DOMAIN lxc |-> AgentPath(node_arg, "lxc", lxc[i].vmid)]

\* C19: at most one request is in flight, each being sent after the one
\* before it has completed; the probes come first, then the one
\* authentication, then the requests of the command; and show_node_info
\* asks, in this order, for the node status, the node address, the VM list,
\* the container list, the address of each VM in list order (kind "qemu"),
\* then the address of each container in list order (kind "lxc").
C19_OneAtATimeInOrder ==
    /\ \A i \in Sent : ~Completed(i) => i = Len(reqs)
    /\ \A i, j \in Sent : i < j => Stage(i) <= Stage(j)
    /\ Cardinality({i \in Sent : Stage(i) = 1}) <= 1
    /\ ShowNodeInfoRan =>
          LET sent == CommandRequests
              paths == ShowNodeInfoPaths
              base == Unwrap(base_url)
          IN  /\ Len(sent) <= Len(paths)
              /\ \A k \in DOMAIN sent :
                    /\ sent[k].req.method = "GET"
                    /\ sent[k].req.url = base \o paths[k]

\* show_node_info has run to its end with a VM and a container listed,
\* after a probe and the authentication: eight requests, all completed
C19_Witness ==
    /\ pc = "exited" /\ exit_code = Some(0)
    /\ ShowNodeInfoRan
    /\ vms # <<>> /\ lxc # <<>>
    /\ Len(CommandRequests) = 4 + Len(vms) + Len(lxc)
    /\ \E i \in Sent : Stage(i) = 0
    /\ \A i \in Sent : Completed(i)

\* the status cells of the table that has been written, each with the
\* status it stands for and what the status is of
StatusCells ==
    LET guests == NormalizeGuests(vms, lxc)
    IN  IF cli.node = None
        THEN {[of |-> "node", status |-> nodes[k].status, cell |-> output[1].rows[k][2]] :
                  k \in DOMAIN nodes}
        ELSE IF node_info # None
        THEN {[of |-> "node", status |-> Unwrap(node_info).status,
               cell |-> output[2].rows[r][2]] :
                  r \in {r \in DOMAIN output[2].rows : output[2].rows[r][1].text = "Status"}}
             \cup (IF guests = <<>> THEN {}
                   ELSE {[of |-> "guest", status |-> guests[k].status,
                          cell |-> output[4].rows[k][4]] : k \in DOMAIN guests})
        ELSE {[of |-> "guest", status |-> guests[k].status, cell |-> output[2].rows[k][5]] :
                  k \in DOMAIN guests}

\* the colour the claim gives a status
StatusColor(status) ==
    IF status \in {"running", "online"} THEN "Green"
    ELSE IF status \in {"stopped", "offline"} THEN "Red"
    ELSE "Yellow"

\* C20: in every table the status cell holds the status and is coloured:
\* green for "running" and "online", red for "stopped" and "offline",
\* yellow for every other status.
C20_StatusColors ==
    (ViewWritten /\ cli.format = "Table") =>
        \A c \in StatusCells :
            c.cell.text = c.status /\ c.cell.fg = StatusColor(c.status)

\* what does hold: the status cell holds the status; it is green exactly
\* for "online" of a node and "running" of a guest; yellow is used by the
\* guest list alone, for a status other than "running" and "stopped";
\* every other status cell is red
C20_StatusColors_PerView ==
    (ViewWritten /\ cli.format = "Table") =>
        \A c \in StatusCells :
            /\ c.cell.text = c.status
            /\ c.cell.fg \in {"Green", "Red", "Yellow"}
            /\ c.cell.fg = "Green" <=>
                  c.status = (IF c.of = "node" THEN "online" ELSE "running")
            /\ c.cell.fg = "Yellow" <=>
                  (cli.node # None /\ node_info = None /\ c.status \notin {"running", "stopped"})

\* the value of a decimal digit
DigitValue(ch) == CHOOSE d \in 0..9 : ToString(d) = ch

\* the number a string of decimal digits stands for
RECURSIVE ParseNat(_)
ParseNat(digits) ==
    IF Len(digits) = 0 THEN 0
    ELSE ParseNat(SubSeq(digits, 1, Len(digits) - 1)) * 10
            + DigitValue(SubSeq(digits, Len(digits), Len(digits)))

\* a string is a decimal numeral without sign or leading zero
IsNumeral(text) ==
    /\ Len(text) >= 1
    /\ \A i \in 1..Len(text) : \E d \in 0..9 : ToString(d) = SubSeq(text, i, i)
    /\ Len(text) > 1 => SubSeq(text, 1, 1) # "0"

\* the node detail table has been written for a node whose uptime is known
UptimeWritten ==
    /\ ViewWritten /\ cli.node # None /\ node_info # None /\ cli.format = "Table"
    /\ Unwrap(node_info).uptime # None

\* C21: in the node detail table an uptime of s seconds is written
\* "<d>d <h>h", d and h decimal numerals, with 0 <= h <= 23 and
\* d*86400 + h*3600 <= s < d*86400 + (h+1)*3600: d is floor(s / 86400) and
\* h is floor((s mod 86400) / 3600).
C21_UptimeDaysHours ==
    UptimeWritten =>
        LET s == Unwrap(Unwrap(node_info).uptime)
            parts == Split(RowValue(output[2].rows, "Uptime"), " ")
        IN  /\ Len(parts) = 2
            /\ EndsWith(parts[1], "d") /\ EndsWith(parts[2], "h")
            /\ LET days == SubSeq(parts[1], 1, Len(parts[1]) - 1)
                   hours == SubSeq(parts[2], 1, Len(parts[2]) - 1)
                   d == ParseNat(days)
                   h == ParseNat(hours)
               IN  /\ IsNumeral(days) /\ IsNumeral(hours)
                   /\ 0 <= h /\ h <= 23
                   /\ d * 86400 + h * 3600 <= s
                   /\ s < d * 86400 + (h + 1) * 3600

\* written: the last second of the first day, "0d 23h"
C21_Witness ==
    /\ UptimeWritten
    /\ Unwrap(node_info).uptime = Some(86399)
    /\ RowValue(output[2].rows, "Uptime") = "0d 23h"

\* a loopback address, as the claims have it: any 127.* address, or ::1
IsLoopbackAddress(address) == StartsWith(address, "127.") \/ address = "::1"

\* the addresses of the interfaces of a network answer, in response order
\* (none for an interface without "address")
InterfaceAddresses(i) ==
    LET data == reqs[i].resp.body.data
    IN  IF data.t = "array" THEN [k \in DOMAIN data.items |-> data.items[k].address]
        ELSE <<>>

\* the node address request of show_node_info has been answered, and the
\* answer taken by get
NodeAddressAnswered(i) ==
    /\ cli.node # None /\ node_info # None
    /\ i \in NetworkRequests
    /\ Completed(i) /\ ~RequestFailed(i)

\* C22: the address get_node_ip returns is the first interface address, in
\* response order, that is not empty and not a loopback address (any 127.*
\* address, or ::1), and none when no interface has such an address: an
\* empty string or a loopback address is never returned.
C22_NodeAddress ==
    \A i \in Sent :
        NodeAddressAnswered(i) =>
            LET usable == SelectSeq(InterfaceAddresses(i),
                                    LAMBDA a : /\ IsSome(a)
                                               /\ Unwrap(a) # ""
                                               /\ ~IsLoopbackAddress(Unwrap(a)))
                ip == Unwrap(node_info).ip
            IN  /\ ip = (IF usable = <<>> THEN None ELSE Some(Unwrap(Head(usable))))
                /\ ip # Some("")
                /\ IsSome(ip) => ~IsLoopbackAddress(Unwrap(ip))

\* what does hold: the address returned is the first that is not empty and
\* is not the one address 127.0.0.1
C22_NodeAddress_OneLoopback ==
    \A i \in Sent :
        NodeAddressAnswered(i) =>
            LET usable == SelectSeq(InterfaceAddresses(i),
                                    LAMBDA a : /\ IsSome(a)
                                               /\ Unwrap(a) # ""
                                               /\ Unwrap(a) # "127.0.0.1")
                ip == Unwrap(node_info).ip
            IN  /\ ip = (IF usable = <<>> THEN None ELSE Some(Unwrap(Head(usable))))
                /\ ip # Some("")
                /\ ip # Some("127.0.0.1")

\* the sequences of a sequence, one after the other
RECURSIVE Flatten(_)
Flatten(seqs) == IF seqs = <<>> THEN <<>> ELSE Head(seqs) \o Flatten(Tail(seqs))

\* the addresses an agent answer reports, interface by interface and, in an
\* interface, in the order of its "ip-addresses"
GuestAddresses(i) ==
    LET data == reqs[i].resp.body.data
    IN  IF data.t # "object" THEN <<>>
        ELSE IF data.fields.result.t # "array" THEN <<>>
        ELSE LET interfaces == data.fields.result.items
                 entries == Flatten([k \in DOMAIN interfaces |->
                                IF IsSome(interfaces[k].ip_addresses)
                                THEN Unwrap(interfaces[k].ip_addresses) ELSE <<>>])
                 given == SelectSeq(entries, LAMBDA e : IsSome(e.ip_address))
             IN  [k \in DOMAIN given |-> Unwrap(given[k].ip_address)]

\* the agent request has been answered, and the answer taken by get_optional
GuestAddressAnswered(i) ==
    /\ i \in AgentRequests
    /\ Completed(i) /\ ~RequestFailed(i)

\* C23: the address get_guest_ip returns is the first address, scanning the
\* interfaces in response order and the addresses of each in order, that is
\* not a loopback address (127.*, ::1), and none when every address reported
\* is loopback or none is reported: a loopback address is never returned
\* and an address that is not loopback is never passed over.
C23_GuestAddress ==
    \A i \in Sent :
        GuestAddressAnswered(i) =>
            LET usable == SelectSeq(GuestAddresses(i), LAMBDA a : ~IsLoopbackAddress(a))
            IN  \A g \in LookupTargets(i) :
                    /\ g.ip = (IF usable = <<>> THEN None ELSE Some(Head(usable)))
                    /\ IsSome(g.ip) => ~IsLoopbackAddress(Unwrap(g.ip))

\* what does hold: the same with every address that begins with "127." or
\* with "::1" taken for loopback
C23_GuestAddress_Prefix ==
    \A i \in Sent :
        GuestAddressAnswered(i) =>
            LET usable == SelectSeq(GuestAddresses(i),
                                    LAMBDA a : ~(StartsWith(a, "127.") \/ StartsWith(a, "::1")))
            IN  /\ LookupTargets(i) # {}
                /\ \A g \in LookupTargets(i) :
                      /\ g.ip = (IF usable = <<>> THEN None ELSE Some(Head(usable)))
                      /\ IsSome(g.ip) => ~IsLoopbackAddress(Unwrap(g.ip))

\* a view of an empty list has been written: no node for the node list, no
\* VM and no container for the two guest views
EmptyListWritten ==
    /\ ViewWritten
    /\ IF cli.node = None THEN nodes = <<>> ELSE vms = <<>> /\ lxc = <<>>

\* a grid with column titles and no row
HeaderOnly(line) == line.kind = "table" /\ line.header # <<>> /\ line.rows = <<>>

\* C24: with an empty node list or an empty guest list the renderer does not
\* fail (the run ends with status 0) and writes, in CSV, the header line and
\* nothing else; in JSON, an object whose array is empty (node list, node
\* detail) or an empty array (guest list); as a table, a grid with its
\* header and no row (node list, guest list) or, after the node's own table,
\* the "no guests" notice (node detail).
C24_EmptyLists ==
    EmptyListWritten =>
        /\ exit_code = Some(0)
        /\ CASE cli.format = "Csv" ->
                  /\ Len(output) = 1
                  /\ output[1].kind = "text"
                  /\ Len(SplitComma(output[1].text)) >= 6
                  /\ \A k \in DOMAIN SplitComma(output[1].text) :
                        SplitComma(output[1].text)[k] # ""
             [] cli.format = "Json" ->
                  /\ Len(output) = 1
                  /\ output[1].kind = "json"
                  /\ IF cli.node = None THEN output[1].value.nodes = <<>>
                     ELSE IF node_info # None THEN output[1].value.guests = <<>>
                     ELSE output[1].value = <<>>
             [] cli.format = "Table" ->
                  IF cli.node = None THEN Len(output) = 1 /\ HeaderOnly(output[1])
                  ELSE IF node_info # None
                  THEN /\ Len(output) = 3
                       /\ output[2].kind = "table" /\ output[2].rows # <<>>
                       /\ output[3] = TextLine("\nNo guests on this node.\n")
                  ELSE /\ Len(output) = 2
                       /\ output[1] = TextLine("Node: " \o node_arg)
                       /\ HeaderOnly(output[2])

\* written: the node detail of a node without guests, as a table
C24_Witness ==
    /\ EmptyListWritten
    /\ node_info # None
    /\ cli.format = "Table"
    /\ output[Len(output)].kind = "text"
    /\ Contains(output[Len(output)].text, "No guests")

\* C25: a probe that is answered with a non-success status has failed just
\* as one that got no answer: after a failed encrypted probe, whichever way
\* it failed, the next request is the plaintext probe, a POST to the ticket
\* endpoint of the http address that carries the username and the secret
\* again; and a failed plaintext probe leaves no base address.
C25_FailedProbeFallsBack ==
    /\ \A i \in EncryptedProbes :
          Failed(i) =>
              /\ i + 1 \in PlaintextProbes
              /\ reqs[i + 1].req.method = "POST"
              /\ reqs[i + 1].req.url = "http://" \o cli.controller \o TicketPath
              /\ reqs[i + 1].req.form =
                    <<<<"username", cli.username>>, <<"password", cli.password>>>>
    /\ \A j \in PlaintextProbes :
          Failed(j) => (base_url = None /\ pc = "exited" /\ exit_code = Some(1))

\* the encrypted endpoint has rejected the probe with a status, and the
\* secret has gone out again in plaintext
C25_Witness ==
    \E i \in EncryptedProbes :
        /\ reqs[i].resp.kind = "http"
        /\ reqs[i].resp.status = 401
        /\ i + 1 \in PlaintextProbes
        /\ <<"password", cli.password>> \in
              {reqs[i + 1].req.form[n] : n \in DOMAIN reqs[i + 1].req.form}

\* the authentication exchange was answered, and not with a success status
\* and a body holding ticket, token and username
AuthRejected(i) ==
    /\ Completed(i)
    /\ \/ Failed(i)
       \/ \E field \in {"ticket", "CSRFPreventionToken", "username"} :
             ~AuthBodyHas(reqs[i].resp, field)

\* C26: once resolve_base_url has returned a base address, the real
\* authentication exchange is made exactly once, to the ticket endpoint of
\* exactly that address, after every probe and before any resource request;
\* when it fails, whatever the probes said, there is no session, no
\* resource request is ever sent, and the run has ended with status 1.
C26_AuthOnceAtBase ==
    /\ Cardinality(AuthExchanges) <= 1
    /\ (base_url # None /\ pc # "authenticate") => Cardinality(AuthExchanges) = 1
    /\ \A i \in AuthExchanges :
          /\ base_url # None
          /\ reqs[i].req.method = "POST"
          /\ reqs[i].req.url = Unwrap(base_url) \o TicketPath
          /\ \A p \in Probes : p < i /\ Completed(p)
          /\ \A k \in ResourceRequests : i < k
          /\ AuthRejected(i) =>
                /\ client = None
                /\ ResourceRequests = {}
                /\ i = Len(reqs)
                /\ pc = "exited"
                /\ exit_code = Some(1)
    /\ ResourceRequests # {} =>
          /\ client # None
          /\ \E i \in AuthExchanges : Completed(i) /\ ~AuthRejected(i)

\* a probe succeeded with the credentials, and the authentication that
\* followed at the address it chose failed
C26_Witness ==
    /\ \E p \in Probes : Succeeded(p)
    /\ \E i \in AuthExchanges :
          /\ AuthRejected(i)
          /\ reqs[i].req.url = Unwrap(base_url) \o TicketPath
    /\ client = None
    /\ exit_code = Some(1)

\* a used/total place of a view: the two quantities as fetched, present or
\* not, and the text that stands there ("<no row>" for a row left out)
Condensed(used, total, text) == [used |-> used, total |-> total, text |-> text]

\* the used/total places of the view that has been written, whatever is
\* present: memory and storage of each node of the node list, memory and
\* storage of the node of the node detail (whose CSV has none)
CondensedPlaces ==
    IF cli.node = None
    THEN UNION { LET n == nodes[k]
                     cells ==
                         CASE cli.format = "Json" ->
                                <<output[1].value.nodes[k].memory_gb,
                                  output[1].value.nodes[k].storage_gb>>
                           [] cli.format = "Csv" ->
                                <<SplitComma(output[k + 1].text)[6],
                                  SplitComma(output[k + 1].text)[7]>>
                           [] cli.format = "Table" ->
                                <<output[1].rows[k][5].text, output[1].rows[k][6].text>>
                 IN  { Condensed(n.mem, n.maxmem, cells[1]),
                       Condensed(n.disk, n.maxdisk, cells[2]) }
               : k \in DOMAIN nodes }
    ELSE IF node_info = None \/ cli.format = "Csv" THEN {}
    ELSE LET info == Unwrap(node_info)
         IN  IF cli.format = "Json"
             THEN { Condensed(info.mem, info.maxmem, output[1].value.memory_gb),
                    Condensed(info.disk, info.maxdisk, output[1].value.storage_gb) }
             ELSE { Condensed(info.mem, info.maxmem, RowValue(output[2].rows, "RAM")),
                    Condensed(info.disk, info.maxdisk, RowValue(output[2].rows, "HDD")) }

\* the text is two numerals with a slash between them, a unit after them
\* or not
TwoNumerals(text) ==
    LET sides == Split(Split(text, " ")[1], "/")
    IN  Len(sides) = 2 /\ IsNumeral(sides[1]) /\ IsNumeral(sides[2])

\* C27: a used/total cell holds computed values, two numerals, only when the
\* used and the total quantity are both present; when either is absent the
\* whole cell is "N/A", or, in the node detail table, the row is left out: a
\* present quantity never stands next to a placeholder.
C27_BothOrNone ==
    ViewWritten =>
        \A c \in CondensedPlaces :
            IF IsSome(c.used) /\ IsSome(c.total)
            THEN TwoNumerals(c.text)
            ELSE IF cli.node # None /\ cli.format = "Table"
                 THEN c.text = "<no row>"
                 ELSE c.text = "N/A"

\* written: a node whose total storage is known and whose used storage is
\* not, the cell "N/A"
C27_Witness ==
    /\ ViewWritten
    /\ cli.node = None
    /\ \E c \in CondensedPlaces :
          c.used = None /\ c.total # None /\ c.text = "N/A"

====
